---- MODULE Spec2Model ----
(***************************************************************************)
(* Live synchronisation engine of lathund (src/live_server.py): the file   *)
(* watcher thread (FileChangeHandler), the broker (LiveServer) with its    *)
(* websocket handlers on the asyncio event loop, and the code execution    *)
(* sandbox, followed by the two text transforms: the renderer              *)
(* (generate_html) and the reconciler (html_to_markdown), on strings.      *)
(* Time is counted in units of 100 ms.                                     *)
(***************************************************************************)
EXTENDS Integers, Sequences, FiniteSets, TLC

\* ------------------------------------------------------------------ bounds
MaxEdits == 3      \* writes of external editors in one run
MaxMsgs == 2       \* client messages in one run, over all sessions
MaxBroadcasts == 2 \* calls of notify_clients in one run
MaxStep == 6       \* longest time between two calls of on_modified, in 100 ms
MaxBlocks == 2     \* blocks of a source document
MaxRows == 2       \* rows of a table of the rendered view
MaxElements == 2   \* top-level pieces of an edited rendered view
MaxClicks == 3     \* clicks on run buttons in one viewer page
MaxSaves == 2      \* save_content messages one viewer page sends

\* --------------------------------------------------------------- constants
Debounce == 5      \* 0.5 s, in units of 100 ms
None == "None"     \* Python's None, where a field has no value

Sessions == {"s1", "s2"}

\* File names are sequences of characters, so that endswith is computed.
DocMd == <<"a", ".", "m", "d">>
OtherMd == <<"b", ".", "m", "d">>
DocTxt == <<"a", ".", "t", "x", "t">>
Paths == {DocMd, OtherMd, DocTxt}
SourceChoices == {DocMd}
AnySourceChoices == {DocMd, DocTxt}
MdSuffix == <<".", "m", "d">>

\* The content the k-th external write leaves in a file.
ExtText(k) == IF k = 1 THEN "x1" ELSE IF k = 2 THEN "x2" ELSE "x3"
InitialText == "v0"
EmptyText == ""

VARIABLES
    markdown_file,   \* LiveServer.markdown_file, the file given at startup
    files,           \* the watched directory: path -> text
    output,          \* the text of LiveServer.output_file
    rendered_from,   \* history: the path whose text `output` was rendered from
    events,          \* modification events queued for the observer thread
    last_modified,   \* FileChangeHandler.last_modified, each time kept as its
                     \* distance to the latest reading of the clock
                     \* (now - last_modified[p]), saturating at Debounce
    callback_origins,\* history: origins of the events that reached the callback
    edits,           \* history: number of external writes so far
    dispatched,      \* history: the calls of on_modified, in order (kept
                     \* where the specification observes them)
    notify_tasks,    \* notify_clients tasks scheduled on the event loop
    last_save,       \* history: the markdown of the last save whose write completed
    reload_due,      \* history: sessions open when a regeneration succeeded
                     \* (kept where the specification observes them)
    clients,         \* LiveServer.clients
    conn,            \* per session: "none", "open" or "closed"
    hpc,             \* per session: position of its websocket_handler
    inbox,           \* per session: messages received and not yet handled
    cur,             \* per session: the locals of the request being handled
    sent,            \* per session: messages delivered to the viewer
    nmsgs,           \* history: number of client messages so far
    finished,        \* history: the requests whose handler has returned
    snapshots,       \* history: the viewer set each broadcast has copied
    copies,          \* clients_copy of each broadcast: the sessions still to send to
    returncodes,     \* process.returncode of the children that have exited
    tempfiles,       \* temporary files that exist, by request id
    procs,           \* processes that are running: [req, role]
    source_text,     \* the text of a source document given to the renderer
    toc_html,        \* the navigation fragment generate_html has split off
    body_html,       \* the content fragment: what a viewer shows, edits and saves
    content,         \* the local variable content of html_to_markdown
    executed,        \* the statements of html_to_markdown executed so far
    markdown_text,   \* the result of html_to_markdown for body_html
    round_trip,      \* the content fragment rendered from markdown_text
    text_pc,         \* how far the transforms have come
    main_container,  \* viewer page: the child nodes of main.container, in order
    pendingExecution,\* viewer page: window.pendingExecution, the block it refers to
    runButton,       \* viewer page: per code block, the state of its run button
    outputArea,      \* viewer page: per code block, the text of its output area
    requests,        \* execute_code messages of the page not yet answered: the
                     \* code block each came from, in the order they were sent
    clicks,          \* history: number of clicks on run buttons so far
    saved            \* history: the content of each save_content the page sent

watcher_vars == <<output, rendered_from, events, last_modified, callback_origins,
                  notify_tasks>>
observer_vars == <<dispatched, reload_due, last_save>>
session_vars == <<clients, conn, hpc, inbox, cur, sent, nmsgs, finished>>
sandbox_vars == <<tempfiles, procs, returncodes>>
broadcast_vars == <<snapshots, copies>>
text_vars == <<source_text, toc_html, body_html, content, executed, markdown_text,
               round_trip, text_pc>>
viewer_vars == <<main_container, pendingExecution, runButton, outputArea, requests,
                 clicks, saved>>
vars == <<markdown_file, files, edits, observer_vars, watcher_vars, session_vars,
          sandbox_vars, broadcast_vars, text_vars, viewer_vars>>

\* ----------------------------------------------------------------- helpers
\* str.endswith
endswith(p, suffix) ==
    /\ Len(p) >= Len(suffix)
    /\ SubSeq(p, Len(p) - Len(suffix) + 1, Len(p)) = suffix

\* markdown.markdown followed by _build_live_doc: a deterministic function of
\* the text read, kept symbolic.
generate_html(md_text) == <<"html", md_text>>

\* What can go wrong in one regeneration: reading the changed file raises
\* (generate_html), opening the artifact raises, or writing it raises after
\* open(..., 'w') has truncated it (both inside Path.write_text).
Faults == {"none", "read", "open", "write"}
TruncatedArtifact == <<"truncated", "">>
write_text(old, html, fault) ==
    CASE fault = "none" -> html
      [] fault = "write" -> TruncatedArtifact
      [] OTHER -> old

\* A modification event as watchdog queues it; origin is history only.
Event(p, origin) == [src_path |-> p, origin |-> origin]

\* The clock advances by d between two readings of time.time().
elapse(lm, d) ==
    [q \in DOMAIN lm |-> IF lm[q] + d < Debounce THEN lm[q] + d ELSE Debounce]

\* The debounce test of on_modified: p in last_modified and
\* now - last_modified[p] < 0.5.
debounced_NoWindow(lm, p) == FALSE
debounced(lm, p) == p \in DOMAIN lm /\ lm[p] < Debounce

\* self.last_modified[event.src_path] = now
put(lm, p) == [q \in DOMAIN lm \cup {p} |-> IF q = p THEN 0 ELSE lm[q]]

\* The timestamps after on_modified: the return of the debounce comes before
\* the assignment, which only an event that passes it reaches.
record_Always(lm, p) == put(lm, p)
record(lm, p) == IF debounced(lm, p) THEN lm ELSE put(lm, p)

\* on_modified reaches self.callback(event.src_path).
callback_invoked(lm, p) == ~debounced(lm, p) /\ endswith(p, MdSuffix)

\* asyncio.create_task needs a running event loop in the calling thread; the
\* observer thread of watchdog has none, so the call raises RuntimeError.
running_loop(thread) == thread = "loop"

\* ------------------------------------------------------------ client input
\* The executable code blocks a viewer can insert into its page.
CodeBlocks == {"b1", "b2"}
SaveContents == {"html1", "html_surrogate", "not_a_string"}
Codes == {"code", "not_a_string"}
Languages == {"python", "c", "cobol"}
IgnoredTypes == {"invalid_json", "unknown_type"}
IgnoredBodies ==
    {[type |-> t, content |-> "html1", language |-> None] : t \in IgnoredTypes}
SaveBodies ==
    {[type |-> "save_content", content |-> c, language |-> None] : c \in SaveContents}
ExecBodies ==
    {[type |-> "execute_code", content |-> c, language |-> l] :
        c \in Codes, l \in Languages}

\* dict.get(key, default) of the decoded message: the default stands in for
\* a key the JSON object does not have (a null value is returned as it is).
Missing == "missing"
get_NoDefault(value, default) == IF value = Missing THEN "not_a_string" ELSE value
get(value, default) == IF value = Missing THEN default ELSE value

\* A JSON value that is a str (the others raise in str methods and in write).
IsString(c) == c # "not_a_string"
\* Text that the file's encoding can encode (a lone surrogate cannot be).
Encodable(text) == text \notin {"html_surrogate", "md_surrogate"}

\* The markdown html_to_markdown returns for each save content, kept symbolic.
markdown_content(html) ==
    CASE html = "html1" -> "md1"
      [] html = "html2" -> "md2"
      [] html = "html_surrogate" -> "md_surrogate"
      [] OTHER -> EmptyText

\* _get_execution_command: None for a language outside the table.
CompiledLanguages == {"c", "cpp", "java", "rust"}
SupportedLanguages == {"python", "javascript", "bash", "go"} \cup CompiledLanguages
get_execution_command(language) ==
    IF language \notin SupportedLanguages THEN None
    ELSE IF language \in CompiledLanguages THEN "sh -c" ELSE "direct"

\* The processes of a spawned command: the child, and for the sh -c
\* compile-then-run commands the process the shell has started (the compiler,
\* or the binary where the shell forks for the last command of the list).
Proc(req, role) == [req |-> req, role |-> role]
process_trees(req, language) ==
    IF language \in CompiledLanguages
    THEN {{Proc(req, "child")}, {Proc(req, "child"), Proc(req, "grandchild")}}
    ELSE {{Proc(req, "child")}}

\* process.kill(): SIGKILL to the pid of the child only.
kill(ps, req) == ps \ {Proc(req, "child")}

\* websocket.send: delivers on an open connection, raises ConnectionClosed
\* otherwise (the callers catch or propagate it; nothing is delivered).
Reply(type, status, error, req) ==
    [type |-> type, status |-> status, error |-> error, req |-> req]
send_Broadcast(snt, s, m) == [t \in Sessions |-> Append(snt[t], m)]
send(snt, s, m) ==
    IF conn[s] = "open" THEN [snt EXCEPT ![s] = Append(@, m)] ELSE snt

\* async for message in websocket: the messages of a connection are received
\* in the order they were sent.
recv_Last(q) == q[Len(q)]
recv(q) == Head(q)

\* The locals of a handler that handles no request.
NoRequest ==
    [req |-> <<"none", 0>>, markdown |-> EmptyText, before |-> EmptyText,
     edits |-> 0, language |-> None]

\* The event loop runs one handler at a time between awaits: the segment of
\* handle_content_save from open() to the end of write() has no await.
LoopFree_ExecutionBlocks == \A s \in Sessions : hpc[s] \notin {"save_write", "exec_wait"}
LoopFree == \A s \in Sessions : hpc[s] # "save_write"

\* ------------------------------------------------ text: strings and regexes
\* A str is a string; positions count from 1, and 0 is "no position".
Min(S) == CHOOSE x \in S : \A y \in S : x <= y
Max(S) == CHOOSE x \in S : \A y \in S : y <= x
First(P) == IF P = {} THEN 0 ELSE Min(P)
\* The value of an expression that is computed once: The({e : x \in {v}}).
The(S) == CHOOSE x \in S : TRUE
Char(s, i) == SubSeq(s, i, i)
From(s, i) == SubSeq(s, i, Len(s))
Whitespace == {" ", "\n"}
\* The character U+0060 of the source, which a string of this language cannot
\* hold, is written ^ here; no text of the model holds a ^ of its own.
Backtick == "^"
Fence == Backtick \o Backtick \o Backtick
WordChars ==
    {"a", "b", "c", "d", "e", "f", "g", "h", "i", "j", "k", "l", "m", "n", "o", "p",
     "q", "r", "s", "t", "u", "v", "w", "x", "y", "z", "A", "B", "H", "T", "0", "1",
     "2", "3", "4", "5", "6", "7", "8", "9", "_"}

\* s[i - 1:] starts with the literal.
StartsAt(s, i, literal) ==
    /\ i >= 1
    /\ i + Len(literal) - 1 <= Len(s)
    /\ SubSeq(s, i, i + Len(literal) - 1) = literal

\* The first position at or after from where one of the literals starts.
FirstAtAny(s, from, literals) ==
    First({i \in from .. Len(s) : \E l \in literals : StartsAt(s, i, l)})
FirstAt(s, from, literal) == FirstAtAny(s, from, {literal})

\* str.find, which counts from 0 and answers -1 for "not found".
find(s, literal) == FirstAt(s, 1, literal) - 1

\* str.lstrip(), str.rstrip(chars), str.rstrip() and str.strip().
lstrip(s) ==
    From(s, Min({i \in 1 .. Len(s) + 1 : i = Len(s) + 1 \/ Char(s, i) \notin Whitespace}))
rstrip_chars(s, chars) ==
    SubSeq(s, 1, Max({i \in 0 .. Len(s) : i = 0 \/ Char(s, i) \notin chars}))
rstrip(s) == rstrip_chars(s, Whitespace)
strip(s) == rstrip(lstrip(s))

\* str.join and str.split(sep)
join(sep, parts) ==
    LET RECURSIVE JoinFrom(_)
        JoinFrom(k) ==
            IF k > Len(parts) THEN ""
            ELSE IF k = Len(parts) THEN parts[k]
            ELSE parts[k] \o sep \o JoinFrom(k + 1)
    IN  JoinFrom(1)
split(s, sep) ==
    LET RECURSIVE SplitFrom(_)
        SplitFrom(from) ==
            The({IF k = 0 THEN <<From(s, from)>>
                 ELSE <<SubSeq(s, from, k - 1)>> \o SplitFrom(k + Len(sep))
                 : k \in {FirstAt(s, from, sep)}})
    IN  SplitFrom(1)

\* The leftmost match of r'<name[^>]*>(.*?)</name>' (re.DOTALL) at or after
\* from: [start, cfrom, cto, end], start = 0 when there is none.  The opening
\* part may be several tags one after the other: opens is the sequence of
\* their sets of alternative '<name'.
NoMatch == [start |-> 0, cfrom |-> 0, cto |-> 0, end |-> 0]
Search(s, from, opens, closes) ==
    LET \* r'<name[^>]*' at i: the position of the '>' that follows, else 0.
        TagClose(i, prefixes) ==
            IF \E p \in prefixes : StartsAt(s, i, p)
            THEN FirstAt(s, i + Len(CHOOSE p \in prefixes : StartsAt(s, i, p)), ">")
            ELSE 0
        \* The position after the opening part that starts at i, else 0.
        RECURSIVE Opened(_, _)
        Opened(i, rest) ==
            IF rest = <<>> THEN i
            ELSE The({IF gt = 0 THEN 0 ELSE Opened(gt + 1, Tail(rest))
                      : gt \in {TagClose(i, Head(rest))}})
        Closed(i, c, k) ==
            IF k = 0 THEN NoMatch
            ELSE [start |-> i, cfrom |-> c, cto |-> k - 1,
                  end |-> k + Len(CHOOSE l \in closes : StartsAt(s, k, l)) - 1]
        MatchAt(i) ==
            The({IF c = 0 THEN NoMatch ELSE Closed(i, c, FirstAtAny(s, c, closes))
                 : c \in {Opened(i, opens)}})
        Leftmost(M) ==
            IF M = {} THEN NoMatch ELSE CHOOSE m \in M : \A n \in M : m.start <= n.start
    IN  Leftmost({MatchAt(i) : i \in from .. Len(s)} \ {NoMatch})

\* re.sub(r'<a[^>]*><b[^>]*>(.*?)</b></a>', r'pre\1post', s, flags=re.DOTALL)
re_sub(opens, closes, pre, post, s) ==
    LET RECURSIVE SubFrom(_)
        SubFrom(from) ==
            The({IF m.start = 0 THEN From(s, from)
                 ELSE SubSeq(s, from, m.start - 1) \o pre \o SubSeq(s, m.cfrom, m.cto)
                      \o post \o SubFrom(m.end + 1)
                 : m \in {Search(s, from, opens, closes)}})
    IN  SubFrom(1)
\* re.sub(r'<name[^>]*>(.*?)</name>', r'pre\1post', s, flags=re.DOTALL)
sub(name, pre, post, s) == re_sub(<<{"<" \o name}>>, {"</" \o name \o ">"}, pre, post, s)

\* re.findall(r'<name[^>]*>(.*?)</name>', s, re.DOTALL): the captured groups.
findall(opens, closes, s) ==
    LET RECURSIVE FindAllFrom(_)
        FindAllFrom(from) ==
            The({IF m.start = 0 THEN <<>>
                 ELSE <<SubSeq(s, m.cfrom, m.cto)>> \o FindAllFrom(m.end + 1)
                 : m \in {Search(s, from, opens, closes)}})
    IN  FindAllFrom(1)

\* html.unescape, for the entities of this table: a name is replaced with or
\* without its semicolon, and the replacement is not scanned again.
unescape(s) ==
    LET Entities ==
            {[name |-> "amp", char |-> "&"], [name |-> "lt", char |-> "<"],
             [name |-> "gt", char |-> ">"]}
        EntityAt(i) == {e \in Entities : StartsAt(s, i, "&" \o e.name)}
        Reference(i, e) ==
            IF StartsAt(s, i, "&" \o e.name \o ";") THEN Len(e.name) + 2
            ELSE Len(e.name) + 1
        RECURSIVE UnescapeFrom(_)
        UnescapeFrom(from) ==
            The({IF i = 0 THEN From(s, from)
                 ELSE The({SubSeq(s, from, i - 1) \o e.char
                           \o UnescapeFrom(i + Reference(i, e)) : e \in EntityAt(i)})
                 : i \in {First({j \in from .. Len(s) : EntityAt(j) # {}})}})
    IN  UnescapeFrom(1)

\* re.sub(r'<[^>]+>', '', s) when keep_u is FALSE and
\* re.sub(r'<(?!/?u\b)[^>]+>', '', s) when it is TRUE.
remove_tags(s, keep_u) ==
    LET \* The lookahead (?!/?u\b) fails at i: a tag named u, opening or closing.
        NamedU(i) ==
            The({/\ StartsAt(s, n, "u")
                 /\ n + 1 > Len(s) \/ Char(s, n + 1) \notin WordChars
                 : n \in {IF StartsAt(s, i + 1, "/") THEN i + 2 ELSE i + 1}})
        RECURSIVE RemoveTagsFrom(_)
        RemoveTagsFrom(from) ==
            The({IF i = 0 THEN From(s, from)
                 ELSE SubSeq(s, from, i - 1) \o RemoveTagsFrom(FirstAt(s, i + 1, ">") + 1)
                 : i \in {First({j \in from .. Len(s) :
                                    /\ Char(s, j) = "<"
                                    /\ ~(keep_u /\ NamedU(j))
                                    /\ FirstAt(s, j + 1, ">") > j + 1})}})
    IN  RemoveTagsFrom(1)

\* re.sub(r'<a[^>]*href=["\']([^"\']*)["\'][^>]*>(.*?)</a>', r'[\2](\1)', s,
\* flags=re.DOTALL): the greedy [^>]* takes the last href of the tag that lets
\* the rest match.
sub_links(s) ==
    LET Quotes == {"\"", "'"}
        HrefAt(i, h) ==
            /\ StartsAt(s, i, "<a")
            /\ h >= i + 2
            /\ \A k \in i + 2 .. h - 1 : Char(s, k) # ">"
            /\ StartsAt(s, h, "href=")
            /\ h + 5 <= Len(s)
            /\ Char(s, h + 5) \in Quotes
        UrlEnd(h) == FirstAtAny(s, h + 6, Quotes)
        LinkClosed(i, gt, k) ==
            IF k = 0 THEN NoMatch
            ELSE [start |-> i, cfrom |-> gt + 1, cto |-> k - 1, end |-> k + 3]
        LinkAt(i, h) ==
            IF ~HrefAt(i, h) \/ UrlEnd(h) = 0 THEN NoMatch
            ELSE The({LinkClosed(i, gt, IF gt = 0 THEN 0 ELSE FirstAt(s, gt + 1, "</a>"))
                      : gt \in {FirstAt(s, UrlEnd(h) + 1, ">")}})
        SearchLink(from) ==
            The({IF i = 0 THEN [m |-> NoMatch, h |-> 0]
                 ELSE The({[m |-> LinkAt(i, h), h |-> h]
                           : h \in {Max({x \in i .. Len(s) : LinkAt(i, x).start # 0})}})
                 : i \in {First({j \in from .. Len(s) :
                                    \E h \in j .. Len(s) : LinkAt(j, h).start # 0})}})
        RECURSIVE SubLinksFrom(_)
        SubLinksFrom(from) ==
            The({IF r.m.start = 0 THEN From(s, from)
                 ELSE SubSeq(s, from, r.m.start - 1)
                      \o "[" \o SubSeq(s, r.m.cfrom, r.m.cto) \o "]("
                      \o SubSeq(s, r.h + 6, UrlEnd(r.h) - 1) \o ")"
                      \o SubLinksFrom(r.m.end + 1)
                 : r \in {SearchLink(from)}})
    IN  SubLinksFrom(1)

\* The collapse of newlines that stand next to each other only.
collapse_blank_lines_Adjacent(s) == join("\n\n", split(s, "\n\n\n"))
\* re.sub(r'\n\s*\n\s*\n', '\n\n', s): a match starts at a newline and runs,
\* through whitespace only, to the last newline of that whitespace.
collapse_blank_lines(s) ==
    LET RunEnd(i) ==
            Max({j \in i .. Len(s) : \A k \in i .. j : Char(s, k) \in Whitespace})
        LastNewline(i) == Max({j \in i .. RunEnd(i) : Char(s, j) = "\n"})
        Newlines(i, j) == Cardinality({k \in i .. j : Char(s, k) = "\n"})
        RECURSIVE CollapseFrom(_)
        CollapseFrom(from) ==
            The({IF i = 0 THEN From(s, from)
                 ELSE SubSeq(s, from, i - 1) \o "\n\n" \o CollapseFrom(LastNewline(i) + 1)
                 : i \in {First({j \in from .. Len(s) :
                                    Char(s, j) = "\n" /\ Newlines(j, RunEnd(j)) >= 3})}})
    IN  CollapseFrom(1)

\* ------------------------------------------------ _convert_tables_to_markdown
table_replacer(table_html) ==
    LET clean_cells(row) ==
            The({[k \in 1 .. Len(cells) |->
                     unescape(strip(remove_tags(cells[k], FALSE)))]
                 : cells \in {findall(<<{"<th", "<td"}>>, {"</th>", "</td>"}, row)}})
        markdown_row(cells) == "| " \o join(" | ", cells) \o " |"
        separator(cells) == markdown_row([k \in 1 .. Len(cells) |-> "---"])
        \* The rows of rows[i], rows[i + 1], ...; the separator follows the first
        \* row of the source (i == 0 there) when that row has cells.
        RECURSIVE markdown_rows(_, _)
        markdown_rows(rows, i) ==
            IF i > Len(rows) THEN <<>>
            ELSE The({IF Len(cells) = 0 THEN <<>>
                      ELSE IF i = 1 THEN <<markdown_row(cells), separator(cells)>>
                      ELSE <<markdown_row(cells)>>
                      : cells \in {clean_cells(rows[i])}})
                 \o markdown_rows(rows, i + 1)
        replaced(rows, lines) ==
            IF Len(rows) = 0 THEN table_html
            ELSE IF Len(lines) # 0 THEN "\n\n" \o join("\n", lines) \o "\n\n"
            ELSE table_html
    IN  The({replaced(rows, markdown_rows(rows, 1))
             : rows \in {findall(<<{"<tr"}>>, {"</tr>"}, table_html)}})
\* re.sub(r'<table[^>]*>.*?</table>', table_replacer, s, flags=re.DOTALL)
convert_tables_to_markdown(html_content) ==
    LET RECURSIVE ConvertTablesFrom(_)
        ConvertTablesFrom(from) ==
            The({IF m.start = 0 THEN From(html_content, from)
                 ELSE SubSeq(html_content, from, m.start - 1)
                      \o table_replacer(SubSeq(html_content, m.start, m.end))
                      \o ConvertTablesFrom(m.end + 1)
                 : m \in {Search(html_content, from, <<{"<table"}>>, {"</table>"})}})
    IN  ConvertTablesFrom(1)

\* ------------------------------------------------ html_to_markdown
\* The statements of html_to_markdown, each an assignment to content: the
\* re.sub calls of one paragraph of the function, in the order of the source.
Statements ==
    <<"strip", "tables", "headers", "paragraphs", "code", "inline", "lists", "links",
      "tags", "unescape", "whitespace">>
statement(name, s) ==
    CASE name = "strip" -> strip(s)
      [] name = "tables" -> convert_tables_to_markdown(s)
      [] name = "headers" ->
           sub("h6", "###### ", "", sub("h5", "##### ", "", sub("h4", "#### ", "",
               sub("h3", "### ", "", sub("h2", "## ", "", sub("h1", "# ", "", s))))))
      [] name = "paragraphs" -> sub("p", "", "\n\n", s)
      [] name = "code" ->
           sub("code", Backtick, Backtick,
               re_sub(<<{"<pre"}, {"<code"}>>, {"</code></pre>"},
                      Fence \o "\n", "\n" \o Fence \o "\n\n", s))
      [] name = "inline" ->
           sub("u", "<u>", "</u>", sub("i", "*", "*", sub("em", "*", "*",
               sub("b", "**", "**", sub("strong", "**", "**", s)))))
      [] name = "lists" -> sub("ol", "", "\n", sub("ul", "", "\n", sub("li", "- ", "", s)))
      [] name = "links" -> sub_links(s)
      [] name = "tags" -> remove_tags(s, TRUE)
      [] name = "unescape" -> unescape(s)
      [] name = "whitespace" -> strip(collapse_blank_lines(s))

\* ------------------------------------------------ markdown.markdown
\* markdown.markdown(md_text, extensions=["extra", "toc"]): the conversion of
\* the library, for the constructs the documents of this model use: ATX
\* headings, paragraphs, bold, italic, inline code, links, tight bullet and
\* numbered lists, one-line-per-row pipe tables and fenced code, with the
\* anchors and the table of contents of the toc extension.
markdown(md_text) ==
    LET Digits == {"0", "1", "2", "3", "4", "5", "6", "7", "8", "9"}
        Bullets == {"-", "*", "+"}
        IsBlank(line) == Len(strip(line)) = 0
        IsFence(line) == StartsAt(line, 1, Fence) /\ Len(strip(line)) = 3
        \* The closing fence of the block that line i opens, 0 when there is none.
        FenceEnd(lines, i) ==
            IF ~IsFence(lines[i]) THEN 0
            ELSE First({j \in i + 1 .. Len(lines) : IsFence(lines[j])})
        \* '#' characters at the start of a line, at most 6 of them.
        Level(line) == Max({n \in 0 .. 6 : \A k \in 1 .. n : StartsAt(line, k, "#")})
        HeaderText(line) == strip(rstrip_chars(From(line, Level(line) + 1), {"#"}))
        \* The marker of a list item ("- " or "1. "): its length, 0 when the
        \* line is not an item of that kind.
        BulletLen(line) ==
            IF Len(line) >= 2 /\ Char(line, 1) \in Bullets /\ Char(line, 2) = " "
            THEN 2 ELSE 0
        NumberLen(line) ==
            The({IF n >= 1 /\ StartsAt(line, n + 1, ". ") THEN n + 2 ELSE 0
                 : n \in {Max({k \in 0 .. Len(line) :
                                  \A j \in 1 .. k : Char(line, j) \in Digits})}})
        MarkerLen(line) == IF BulletLen(line) > 0 THEN BulletLen(line) ELSE NumberLen(line)
        \* The items of a list block: a line with a marker opens an item, any
        \* other line continues the one before it.
        RECURSIVE list_items(_)
        list_items(lines) ==
            IF lines = <<>> THEN <<>>
            ELSE The({IF n > 0 \/ init = <<>>
                      THEN Append(init, lstrip(From(lines[Len(lines)], n + 1)))
                      ELSE [init EXCEPT ![Len(init)] = @ \o "\n" \o lines[Len(lines)]]
                      : init \in {list_items(SubSeq(lines, 1, Len(lines) - 1))},
                        n \in {MarkerLen(lines[Len(lines)])}})
        \* The cells of a table row: the text between the pipes, without the
        \* border pipes of the line.
        Unbordered(t) ==
            SubSeq(t, IF StartsAt(t, 1, "|") THEN 2 ELSE 1,
                   IF Len(t) > 0 /\ Char(t, Len(t)) = "|" THEN Len(t) - 1 ELSE Len(t))
        row_cells(line) ==
            The({[k \in 1 .. Len(parts) |-> strip(parts[k])]
                 : parts \in {split(Unbordered(strip(line)), "|")}})
        IsSeparatorRow(line) ==
            /\ FirstAt(line, 1, "-") # 0
            /\ FirstAt(line, 1, "|") # 0
            /\ \A k \in 1 .. Len(line) : Char(line, k) \in {"|", "-", ":", " "}
        IsTable(lines) ==
            /\ Len(lines) >= 2
            /\ FirstAt(lines[1], 1, "|") # 0
            /\ IsSeparatorRow(lines[2])
            /\ Len(row_cells(lines[1])) = Len(row_cells(lines[2]))
        \* A block of the document.
        Block(kind, level, text, items, rows) ==
            [kind |-> kind, level |-> level, text |-> text, items |-> items, rows |-> rows]
        \* The blocks of a run of lines without blank lines and fences, by the
        \* block processors in their order: table, heading (anywhere in the
        \* run), numbered list, bullet list, paragraph.
        RECURSIVE parse_block(_)
        parse_block(lines) ==
            IF lines = <<>> THEN <<>>
            ELSE IF IsTable(lines)
            THEN <<Block("table", 0, "", <<>>,
                         <<row_cells(lines[1])>>
                         \o [k \in 1 .. Len(lines) - 2 |-> row_cells(lines[k + 2])])>>
            ELSE The({IF h # 0
                      THEN parse_block(SubSeq(lines, 1, h - 1))
                           \o <<Block("h", Level(lines[h]), HeaderText(lines[h]),
                                      <<>>, <<>>)>>
                           \o parse_block(SubSeq(lines, h + 1, Len(lines)))
                      ELSE IF NumberLen(lines[1]) > 0
                      THEN <<Block("ol", 0, "", list_items(lines), <<>>)>>
                      ELSE IF BulletLen(lines[1]) > 0
                      THEN <<Block("ul", 0, "", list_items(lines), <<>>)>>
                      ELSE <<Block("p", 0, lstrip(join("\n", lines)), <<>>, <<>>)>>
                      : h \in {First({k \in 1 .. Len(lines) : Level(lines[k]) > 0})}})
        \* The last line of the run of lines that starts the document.
        RunLast(lines) ==
            The({IF k = 0 THEN Len(lines) ELSE k - 1
                 : k \in {First({j \in 1 .. Len(lines) :
                                    IsBlank(lines[j]) \/ FenceEnd(lines, j) # 0})}})
        \* The blocks of a document: fenced code is taken out first, blank
        \* lines separate the rest.
        RECURSIVE parse(_)
        parse(lines) ==
            IF lines = <<>> THEN <<>>
            ELSE The({IF f # 0
                      THEN <<Block("pre", 0,
                                   join("", [k \in 1 .. f - 2 |-> lines[k + 1] \o "\n"]),
                                   <<>>, <<>>)>>
                           \o parse(SubSeq(lines, f + 1, Len(lines)))
                      ELSE IF IsBlank(lines[1]) THEN parse(Tail(lines))
                      ELSE parse_block(SubSeq(lines, 1, e))
                           \o parse(SubSeq(lines, e + 1, Len(lines)))
                      : f \in {FenceEnd(lines, 1)}, e \in {RunLast(lines)}})
        \* The text of a node, as the serializer escapes it.
        Escaped(c) == CASE c = "&" -> "&amp;" [] c = "<" -> "&lt;" [] c = ">" -> "&gt;"
        RECURSIVE EscapeFrom(_, _)
        EscapeFrom(s, from) ==
            The({IF i = 0 THEN From(s, from)
                 ELSE SubSeq(s, from, i - 1) \o Escaped(Char(s, i)) \o EscapeFrom(s, i + 1)
                 : i \in {FirstAtAny(s, from, {"&", "<", ">"})}})
        \* An inline pattern open(.+?)close, or open([^c]+)close when strict:
        \* where its close starts when it matches at i, else 0.
        PairAt(s, i, open, close, strict) ==
            IF ~StartsAt(s, i, open) THEN 0
            ELSE The({IF c > i + Len(open) THEN c ELSE 0
                      : c \in {FirstAt(s, i + Len(open) + (IF strict THEN 0 ELSE 1),
                                       close)}})
        \* The leftmost match is replaced by pre\1post, and so on after it.
        RECURSIVE SubPairFrom(_, _, _, _, _, _, _)
        SubPairFrom(s, from, open, close, strict, pre, post) ==
            The({IF i = 0 THEN From(s, from)
                 ELSE The({SubSeq(s, from, i - 1)
                           \o pre \o SubSeq(s, i + Len(open), c - 1) \o post
                           \o SubPairFrom(s, c + Len(close), open, close, strict, pre, post)
                           : c \in {PairAt(s, i, open, close, strict)}})
                 : i \in {First({j \in from .. Len(s) :
                                    PairAt(s, j, open, close, strict) # 0})}})
        \* [text](url): where "](" and ")" are when a link starts at i, else 0.
        LinkMid(s, i) ==
            IF Char(s, i) = "[" /\ StartsAt(s, FirstAt(s, i + 1, "]"), "](")
            THEN FirstAt(s, i + 1, "]") ELSE 0
        LinkEnd(s, i) ==
            IF LinkMid(s, i) = 0 THEN 0 ELSE FirstAt(s, LinkMid(s, i) + 2, ")")
        RECURSIVE InlineLinksFrom(_, _)
        InlineLinksFrom(s, from) ==
            The({IF i = 0 THEN From(s, from)
                 ELSE The({SubSeq(s, from, i - 1)
                           \o "<a href=\"" \o SubSeq(s, mid + 2, end - 1) \o "\">"
                           \o SubSeq(s, i + 1, mid - 1) \o "</a>"
                           \o InlineLinksFrom(s, end + 1)
                           : mid \in {LinkMid(s, i)}, end \in {LinkEnd(s, i)}})
                 : i \in {First({j \in from .. Len(s) : LinkEnd(s, j) # 0})}})
        \* The inline patterns in their order: code, links, strong, emphasis.
        inline(s) ==
            SubPairFrom(
                SubPairFrom(
                    InlineLinksFrom(
                        SubPairFrom(EscapeFrom(s, 1), 1, Backtick, Backtick, FALSE,
                                    "<code>", "</code>"),
                        1),
                    1, "**", "**", FALSE, "<strong>", "</strong>"),
                1, "*", "*", TRUE, "<em>", "</em>")
        \* The text of a heading without its markup.
        plain(s) == strip(remove_tags(inline(s), FALSE))
        \* slugify of the toc extension, and the suffix that makes an anchor
        \* unique.
        Lower(c) ==
            CASE c = "A" -> "a" [] c = "B" -> "b" [] c = "H" -> "h" [] c = "T" -> "t"
              [] OTHER -> c
        SlugChar(c) ==
            IF c \in WordChars THEN Lower(c)
            ELSE IF c \in Whitespace \cup {"-"} THEN "-"
            ELSE ""
        slugify(s) ==
            The({join("", [k \in 1 .. Len(name) |-> SlugChar(Char(name, k))])
                 : name \in {plain(s)}})
        Suffix == <<"", "_1", "_2", "_3", "_4">>
        unique(id, used) ==
            id \o Suffix[Min({k \in 1 .. Len(Suffix) : id \o Suffix[k] \notin used})]
        \* The anchors of the headings among blocks[1 .. n], in order.
        RECURSIVE anchors(_, _)
        anchors(blocks, n) ==
            IF n = 0 THEN <<>>
            ELSE The({IF blocks[n].kind # "h" THEN before
                      ELSE Append(before,
                                  unique(slugify(blocks[n].text),
                                         {before[k] : k \in 1 .. Len(before)}))
                      : before \in {anchors(blocks, n - 1)}})
        Last(ids) == IF ids = <<>> THEN "" ELSE ids[Len(ids)]
        anchor_of(blocks, n) ==
            IF blocks[n].kind = "h" THEN Last(anchors(blocks, n)) ELSE ""
        \* The serialization of one block; id is the anchor of a heading.
        Tagged(tag, lines) ==
            "<" \o tag \o ">\n" \o join("\n", lines) \o "\n</" \o tag \o ">"
        TableRow(tag, cells) ==
            Tagged("tr", [k \in 1 .. Len(cells) |->
                             "<" \o tag \o ">" \o inline(cells[k]) \o "</" \o tag \o ">"])
        to_html(b, id) ==
            CASE b.kind = "h" ->
                   "<h" \o ToString(b.level) \o " id=\"" \o id \o "\">" \o inline(b.text)
                   \o "</h" \o ToString(b.level) \o ">"
              [] b.kind = "p" -> "<p>" \o inline(b.text) \o "</p>"
              [] b.kind = "pre" -> "<pre><code>" \o EscapeFrom(b.text, 1) \o "</code></pre>"
              [] b.kind \in {"ul", "ol"} ->
                   Tagged(b.kind, [k \in 1 .. Len(b.items) |->
                                      "<li>" \o inline(b.items[k]) \o "</li>"])
              [] b.kind = "table" ->
                   Tagged("table",
                          <<Tagged("thead", <<TableRow("th", b.rows[1])>>),
                            Tagged("tbody", [k \in 1 .. Len(b.rows) - 1 |->
                                                TableRow("td", b.rows[k + 1])])>>)
        \* The table of contents that replaces a paragraph holding only the
        \* marker.
        Headings(blocks) == {n \in 1 .. Len(blocks) : blocks[n].kind = "h"}
        Nth(hs, k) == CHOOSE n \in hs : Cardinality({m \in hs : m <= n}) = k
        toc_entries(blocks, ids) ==
            [k \in 1 .. Len(ids) |->
                "<li><a href=\"#" \o ids[k] \o "\">"
                \o plain(blocks[Nth(Headings(blocks), k)].text) \o "</a></li>"]
        toc_div(blocks) ==
            The({"<div class=\"toc\">\n"
                 \o (IF Len(ids) = 0 THEN "<ul></ul>"
                     ELSE Tagged("ul", toc_entries(blocks, ids)))
                 \o "\n</div>"
                 : ids \in {anchors(blocks, Len(blocks))}})
        IsMarker(b) == b.kind = "p" /\ strip(b.text) = "[TOC]"
    IN  The({join("\n", [n \in 1 .. Len(blocks) |->
                            IF IsMarker(blocks[n]) THEN toc_div(blocks)
                            ELSE to_html(blocks[n], anchor_of(blocks, n))])
             : blocks \in {parse(split(md_text, "\n"))}})

\* ------------------------------------------------ render
\* generate_html up to the split of the converted document: the navigation
\* fragment and the content fragment handed to the page template.
converted(md_text) == markdown("[TOC]\n" \o md_text)
render_AtMarker(source) ==
    LET end_tag == "</div>"
    IN  The({The({[toc_html |-> SubSeq(md_html, 1, toc_end),
                   body_html |-> From(md_html, toc_end + Len(end_tag) + 1)]
                  : toc_end \in {find(md_html, end_tag)}})
             : md_html \in {converted(source)}})
render(source) ==
    LET end_tag == "</div>"
    IN  The({The({[toc_html |-> SubSeq(md_html, 1, toc_end),
                   body_html |-> From(md_html, toc_end + 1)]
                  : toc_end \in {find(md_html, end_tag) + Len(end_tag)}})
             : md_html \in {converted(source)}})

\* -------------------------------------------------------------------- Init
InitWith(sources) ==
    /\ markdown_file \in sources
    /\ files = [p \in Paths |-> InitialText]
    /\ output = generate_html(InitialText)
    /\ rendered_from = markdown_file
    /\ events = <<>>
    /\ last_modified = <<>>
    /\ callback_origins = {}
    /\ edits = 0
    /\ dispatched = <<>>
    /\ notify_tasks = 0
    /\ reload_due = {}
    /\ last_save = None
    /\ clients = {}
    /\ conn = [s \in Sessions |-> "none"]
    /\ hpc = [s \in Sessions |-> "none"]
    /\ inbox = [s \in Sessions |-> <<>>]
    /\ cur = [s \in Sessions |-> NoRequest]
    /\ sent = [s \in Sessions |-> <<>>]
    /\ nmsgs = 0
    /\ finished = {}
    /\ tempfiles = {}
    /\ procs = {}
    /\ returncodes = {}
    /\ snapshots = <<>>
    /\ copies = <<>>
    /\ main_container = <<"content">>
    /\ pendingExecution = None
    /\ runButton = [b \in CodeBlocks |-> "run"]
    /\ outputArea = [b \in CodeBlocks |-> "hidden"]
    /\ requests = <<>>
    /\ clicks = 0
    /\ saved = <<>>

\* No text is under way in the transforms.
NoText ==
    /\ source_text = ""
    /\ toc_html = ""
    /\ body_html = ""
    /\ content = ""
    /\ executed = 0
    /\ markdown_text = ""
    /\ round_trip = ""
    /\ text_pc = "idle"

\* The engine started on a markdown file, and on any file (main accepts every
\* path that exists).
Init == InitWith(SourceChoices) /\ NoText
InitAnySource == InitWith(AnySourceChoices) /\ NoText

\* ------------------------------------------------------------- transform input
\* The sequences over S of at most n elements.
SeqsUpTo(S, n) == UNION {[1 .. k -> S] : k \in 0 .. n}

\* Source documents: blocks of the constructs the reconciler knows, separated
\* by blank lines.
Blocks ==
    {"# Title", "Hello **world**.", "See [t](u) and *i*.", "- a\n- b", "1. a\n2. b",
     "| A | B |\n| --- | --- |\n| 1 | 2 |", Fence \o "\nx\n" \o Fence, "## Notes"}
Documents == {join("\n\n", d) : d \in SeqsUpTo(Blocks, MaxBlocks)}

\* Tables of a rendered view after an edit: rows of cells as the browser
\* serializes them, the first row with header cells.
RowChoices ==
    {<<>>, <<"A", "B">>, <<"1", "2">>, <<"A">>, <<"1", "2", "3">>,
     <<"&lt;b&gt;x&lt;/b&gt;">>, <<"&amp;lt;">>}
TableHtml(rows) ==
    LET RowHtml(tag, cells) ==
            "<tr>" \o join("", [k \in 1 .. Len(cells) |->
                                   "<" \o tag \o ">" \o cells[k] \o "</" \o tag \o ">"])
            \o "</tr>"
    IN  "<table>"
        \o join("", [k \in 1 .. Len(rows) |->
                         RowHtml(IF k = 1 THEN "th" ELSE "td", rows[k])])
        \o "</table>"
Tables == {TableHtml(rows) : rows \in SeqsUpTo(RowChoices, MaxRows)}

\* Rendered views after an edit: elements one after the other.
Elements ==
    {"<p>y</p>", "<pre><code>x\n</code></pre>", "<code>c</code>", "<u>t</u>",
     "<u>a<u class=\"k\">b</u>c</u>", "<u-x>e</u-x>", "<span>s</span>",
     "<b>c</b>", "<i>d</i>", "<br>b", "<img src=\"p\">e",
     "<h2 id=\"t\">T</h2>",
     "<ul>\n<li>a</li>\n</ul>", "<div>a\n \n\nb</div>", "\n"}
Views == {join("", v) : v \in SeqsUpTo(Elements, MaxElements)}

\* A source document is about to be rendered.
InitDocuments ==
    /\ InitWith(SourceChoices)
    /\ source_text \in Documents
    /\ toc_html = ""
    /\ body_html = ""
    /\ content = ""
    /\ executed = 0
    /\ markdown_text = ""
    /\ round_trip = ""
    /\ text_pc = "source"
\* A viewer is about to save the content of its view.
InitContent(contents) ==
    /\ InitWith(SourceChoices)
    /\ source_text = ""
    /\ toc_html = ""
    /\ body_html \in contents
    /\ content = ""
    /\ executed = 0
    /\ markdown_text = ""
    /\ round_trip = ""
    /\ text_pc = "edited"

\* ------------------------------------------------------- external editors
\* An editor (or any other program) writes a file of the watched directory.
ExternalWrite(p) ==
    /\ edits < MaxEdits
    /\ edits' = edits + 1
    /\ files' = [files EXCEPT ![p] = ExtText(edits + 1)]
    /\ events' = Append(events, Event(p, "external"))
    /\ UNCHANGED <<viewer_vars, text_vars, markdown_file, output, rendered_from, last_modified,
                   callback_origins, notify_tasks, observer_vars, broadcast_vars, session_vars,
                   sandbox_vars>>

\* ------------------------------------------------------ the watcher thread
\* FileChangeHandler.on_modified for the next queued event, with the callback
\* LiveServer.on_file_change it calls synchronously.  d is the time that has
\* passed since the previous call read time.time(), fault what goes wrong in
\* the regeneration if the callback is invoked.
on_modified(d, fault) ==
    /\ events # <<>>
    /\ LET e == Head(events)
           p == e.src_path
           lm == elapse(last_modified, d)
           call == callback_invoked(lm, p)
       IN  /\ events' = Tail(events)
           /\ last_modified' = record(lm, p)
           /\ IF call
              THEN \* on_file_change(p): generate_html(p), write_text, create_task;
                   \* every exception is caught and printed
                   /\ output' = write_text(output, generate_html(files[p]), fault)
                   /\ rendered_from' = IF fault \in {"none", "write"} THEN p
                                       ELSE rendered_from
                   /\ callback_origins' = callback_origins \cup {e.origin}
                   /\ notify_tasks' = IF fault = "none" /\ running_loop("watcher")
                                      THEN notify_tasks + 1
                                      ELSE notify_tasks   \* RuntimeError, swallowed
              ELSE UNCHANGED <<output, rendered_from, callback_origins, notify_tasks>>
    /\ UNCHANGED <<viewer_vars, text_vars, markdown_file, files, edits, session_vars, sandbox_vars,
                   broadcast_vars>>

\* History of the calls of on_modified: path, time since the previous call,
\* and whether the callback was invoked.
Observe(d) ==
    dispatched' = Append(dispatched,
        [src_path |-> Head(events).src_path, elapsed |-> d,
         invoked |-> callback_invoked(elapse(last_modified, d), Head(events).src_path)])
\* History of the sessions that were open when the callback was invoked and
\* the regeneration succeeded.
ObserveDue(d) ==
    reload_due' =
        IF callback_invoked(elapse(last_modified, d), Head(events).src_path)
        THEN reload_due \cup {s \in clients : conn[s] = "open"}
        ELSE reload_due

\* ------------------------------------------------------------- the clients
\* A viewer connects: websocket_handler starts and adds it to the set.
Connect(s) ==
    /\ LoopFree
    /\ conn[s] = "none"
    /\ conn' = [conn EXCEPT ![s] = "open"]
    /\ clients' = clients \cup {s}
    /\ hpc' = [hpc EXCEPT ![s] = "loop"]
    /\ UNCHANGED <<viewer_vars, text_vars, markdown_file, files, edits, observer_vars, broadcast_vars, watcher_vars, inbox, cur, sent,
                   nmsgs, finished, sandbox_vars>>

\* A viewer sends a message.
ClientSend(s, body) ==
    /\ conn[s] = "open"
    /\ nmsgs < MaxMsgs
    /\ nmsgs' = nmsgs + 1
    /\ inbox' = [inbox EXCEPT ![s] = Append(@, [id |-> <<s, nmsgs + 1>>, body |-> body])]
    /\ UNCHANGED <<viewer_vars, text_vars, markdown_file, files, edits, observer_vars, broadcast_vars, watcher_vars, clients, conn, hpc,
                   cur, sent, finished, sandbox_vars>>

\* A viewer closes its connection (or the connection drops).
ClientClose(s) ==
    /\ conn[s] = "open"
    /\ conn' = [conn EXCEPT ![s] = "closed"]
    /\ UNCHANGED <<viewer_vars, text_vars, markdown_file, files, edits, observer_vars, broadcast_vars, watcher_vars, clients, hpc, inbox,
                   cur, sent, nmsgs, finished, sandbox_vars>>

\* The message loop of websocket_handler ends: finally, discard.
HandlerExit_NoDiscard(s) ==
    /\ LoopFree
    /\ hpc[s] = "loop"
    /\ conn[s] = "closed"
    /\ inbox[s] = <<>>
    /\ hpc' = [hpc EXCEPT ![s] = "done"]
    /\ UNCHANGED <<viewer_vars, text_vars, markdown_file, files, edits, observer_vars, broadcast_vars, watcher_vars, clients,
                   conn, inbox, cur, sent, nmsgs, finished, sandbox_vars>>
HandlerExit(s) ==
    /\ LoopFree
    /\ hpc[s] = "loop"
    /\ conn[s] = "closed"
    /\ inbox[s] = <<>>
    /\ hpc' = [hpc EXCEPT ![s] = "done"]
    /\ clients' = clients \ {s}
    /\ UNCHANGED <<viewer_vars, text_vars, markdown_file, files, edits, observer_vars, broadcast_vars, watcher_vars, conn, inbox, cur,
                   sent, nmsgs, finished, sandbox_vars>>

\* History record of a message the message loop has dropped.
Ignored(s, msg) ==
    [req |-> msg.id, session |-> s, type |-> msg.body.type, outcome |-> "ignored",
     open |-> conn[s] = "open", modified |-> FALSE, error |-> ""]

\* websocket_handler receives a message that json.loads rejects (the
\* JSONDecodeError is caught and printed) or whose type has no branch: the
\* loop goes on with the next message.
IgnoreMessage_EndLoop(s) ==
    /\ LoopFree
    /\ hpc[s] = "loop"
    /\ inbox[s] # <<>>
    /\ recv(inbox[s]).body.type \in IgnoredTypes
    /\ inbox' = [inbox EXCEPT ![s] = Tail(@)]
    /\ finished' = finished \cup {Ignored(s, recv(inbox[s]))}
    /\ hpc' = [hpc EXCEPT ![s] = "done"]
    /\ clients' = clients \ {s}
    /\ UNCHANGED <<viewer_vars, text_vars, markdown_file, files, edits, observer_vars, broadcast_vars, watcher_vars, conn,
                   cur, sent, nmsgs, sandbox_vars>>
IgnoreMessage(s) ==
    /\ LoopFree
    /\ hpc[s] = "loop"
    /\ inbox[s] # <<>>
    /\ recv(inbox[s]).body.type \in IgnoredTypes
    /\ inbox' = [inbox EXCEPT ![s] = Tail(@)]
    /\ finished' = finished \cup {Ignored(s, recv(inbox[s]))}
    /\ UNCHANGED <<viewer_vars, text_vars, markdown_file, files, edits, observer_vars, broadcast_vars, watcher_vars, clients,
                   conn, hpc, cur, sent, nmsgs, sandbox_vars>>

\* ---------------------------------------------------- handle_content_save
\* History record of a save request whose handler has returned.
SaveDone(s, req, outcome, modified) ==
    [req |-> req, session |-> s, type |-> "save_content", outcome |-> outcome,
     open |-> conn[s] = "open", modified |-> modified, error |-> ""]

\* The acknowledgement of handle_content_save: status success from the try
\* block, status error from the except block.
content_updated_NoErrorReply(snt, s, status, req) ==
    IF status = "error" THEN snt
    ELSE send(snt, s, Reply("content_updated", status, "", req))
content_updated(snt, s, status, req) ==
    send(snt, s, Reply("content_updated", status, "", req))

\* websocket_handler receives a save_content message and handle_content_save
\* runs up to open(self.markdown_file, 'w'), which truncates the file.
SaveBegin(s) ==
    /\ LoopFree
    /\ hpc[s] = "loop"
    /\ inbox[s] # <<>>
    /\ recv(inbox[s]).body.type = "save_content"
    /\ LET msg == recv(inbox[s])
           html_content == get(msg.body.content, "")
       IN  /\ inbox' = [inbox EXCEPT ![s] = Tail(@)]
           /\ \/ \* html_to_markdown raises (html_content is no str)
                 /\ ~IsString(html_content)
                 /\ sent' = content_updated(sent, s, "error", msg.id)
                 /\ finished' = finished \cup {SaveDone(s, msg.id, "error", FALSE)}
                 /\ UNCHANGED <<files, events, hpc, cur>>
              \/ \* open() raises OSError
                 /\ IsString(html_content)
                 /\ sent' = content_updated(sent, s, "error", msg.id)
                 /\ finished' = finished \cup {SaveDone(s, msg.id, "error", FALSE)}
                 /\ UNCHANGED <<files, events, hpc, cur>>
              \/ \* open() succeeds and has truncated the file
                 /\ IsString(html_content)
                 /\ files' = [files EXCEPT ![markdown_file] = EmptyText]
                 /\ events' = Append(events, Event(markdown_file, "save"))
                 /\ hpc' = [hpc EXCEPT ![s] = "save_write"]
                 /\ cur' = [cur EXCEPT ![s] =
                        [req |-> msg.id, markdown |-> markdown_content(html_content),
                         before |-> files[markdown_file], edits |-> edits,
                         language |-> None]]
                 /\ UNCHANGED <<sent, finished>>
    /\ UNCHANGED <<viewer_vars, text_vars, markdown_file, edits, observer_vars, broadcast_vars, output, rendered_from,
                   last_modified, callback_origins, notify_tasks, clients, conn,
                   nmsgs, sandbox_vars>>

\* f.write(markdown_content), the close of the file, and the acknowledgement.
SaveWrite(s) ==
    /\ hpc[s] = "save_write"
    /\ LET c == cur[s]
           ok == Encodable(c.markdown)
           text == IF ok THEN c.markdown ELSE EmptyText
           outcome == IF ~ok THEN "error"
                      ELSE IF conn[s] = "open" THEN "success" ELSE "ack_failed"
       IN  /\ files' = [files EXCEPT ![markdown_file] = text]
           /\ events' = IF ok THEN Append(events, Event(markdown_file, "save"))
                        ELSE events
           /\ sent' = content_updated(sent, s, IF ok THEN "success" ELSE "error", c.req)
           /\ finished' = finished \cup
                  {SaveDone(s, c.req, outcome, text # c.before /\ edits = c.edits)}
           /\ last_save' = IF ok THEN c.markdown ELSE last_save
    /\ hpc' = [hpc EXCEPT ![s] = "loop"]
    /\ cur' = [cur EXCEPT ![s] = NoRequest]
    /\ UNCHANGED <<viewer_vars, text_vars, markdown_file, edits, dispatched, reload_due, broadcast_vars, output, rendered_from,
                   last_modified, callback_origins, notify_tasks, clients, conn,
                   inbox, nmsgs, sandbox_vars>>

\* -------------------------------------------------- handle_code_execution
\* History record of an execute request whose handler has returned.
ExecDone(s, req, error) ==
    [req |-> req, session |-> s, type |-> "execute_code", outcome |-> "returned",
     open |-> conn[s] = "open", modified |-> FALSE, error |-> error]

\* The one send of handle_code_execution, with the dict _execute_code returned.
code_execution_result_NotOnTimeout(snt, s, success, error, req) ==
    IF error = "timeout" THEN snt
    ELSE send(snt, s, Reply("code_execution_result",
                            IF success THEN "success" ELSE "failure", error, req))
code_execution_result(snt, s, success, error, req) ==
    send(snt, s, Reply("code_execution_result",
                       IF success THEN "success" ELSE "failure", error, req))

\* os.unlink(temp_file) in the finally clause of _execute_code.
unlink(tf, req) == tf \ {req}

\* websocket_handler receives an execute_code message; _execute_code creates
\* the temporary file, writes the code, resolves the command and spawns it.
ExecBegin(s) ==
    /\ LoopFree
    /\ hpc[s] = "loop"
    /\ inbox[s] # <<>>
    /\ recv(inbox[s]).body.type = "execute_code"
    /\ LET msg == recv(inbox[s])
           code == msg.body.content
           language == msg.body.language
           created == tempfiles \cup {msg.id}
       IN  /\ inbox' = [inbox EXCEPT ![s] = Tail(@)]
           /\ \/ \* f.write(code) raises inside the with block, before the inner try
                 /\ ~IsString(code)
                 /\ tempfiles' = created
                 /\ sent' = code_execution_result(sent, s, FALSE, "exception", msg.id)
                 /\ finished' = finished \cup {ExecDone(s, msg.id, "exception")}
                 /\ UNCHANGED <<procs, hpc, cur>>
              \/ \* no command for the language
                 /\ IsString(code)
                 /\ get_execution_command(language) = None
                 /\ tempfiles' = unlink(created, msg.id)
                 /\ sent' = code_execution_result(sent, s, FALSE, "unsupported", msg.id)
                 /\ finished' = finished \cup {ExecDone(s, msg.id, "unsupported")}
                 /\ UNCHANGED <<procs, hpc, cur>>
              \/ \* create_subprocess_exec raises (the program is not installed)
                 /\ IsString(code)
                 /\ get_execution_command(language) # None
                 /\ tempfiles' = unlink(created, msg.id)
                 /\ sent' = code_execution_result(sent, s, FALSE, "spawn", msg.id)
                 /\ finished' = finished \cup {ExecDone(s, msg.id, "spawn")}
                 /\ UNCHANGED <<procs, hpc, cur>>
              \/ \* the child runs; the handler awaits communicate() or the timeout
                 /\ IsString(code)
                 /\ get_execution_command(language) # None
                 /\ tempfiles' = created
                 /\ \E tree \in process_trees(msg.id, language) :
                        procs' = procs \cup tree
                 /\ hpc' = [hpc EXCEPT ![s] = "exec_wait"]
                 /\ cur' = [cur EXCEPT ![s] =
                        [req |-> msg.id, markdown |-> EmptyText, before |-> EmptyText,
                         edits |-> edits, language |-> language]]
                 /\ UNCHANGED <<sent, finished>>
    /\ UNCHANGED <<viewer_vars, text_vars, markdown_file, files, edits, observer_vars, broadcast_vars, watcher_vars, clients,
                   conn, nmsgs, returncodes>>

\* The dict returned after communicate(): success is returncode == 0, error
\* is '' for 0 and 'Process exited with code ...' otherwise.
ExitCodes == {0, 1, -9}
exit_success_NonNegative(rc) == rc >= 0
exit_success(rc) == rc = 0
exit_error(rc) == IF rc = 0 THEN "" ELSE "exit"

\* The child exits before the timeout with return code rc.
ExecExit(s) ==
    /\ LoopFree
    /\ hpc[s] = "exec_wait"
    /\ \E rc \in ExitCodes :
        /\ procs' = {p \in procs : p.req # cur[s].req}
        /\ returncodes' = returncodes \cup {[req |-> cur[s].req, rc |-> rc]}
        /\ tempfiles' = unlink(tempfiles, cur[s].req)
        /\ sent' = code_execution_result(sent, s, exit_success(rc), exit_error(rc),
                                         cur[s].req)
        /\ finished' = finished \cup {ExecDone(s, cur[s].req, exit_error(rc))}
    /\ hpc' = [hpc EXCEPT ![s] = "loop"]
    /\ cur' = [cur EXCEPT ![s] = NoRequest]
    /\ UNCHANGED <<viewer_vars, text_vars, markdown_file, files, edits, observer_vars, broadcast_vars, watcher_vars, clients, conn, inbox,
                   nmsgs>>

\* wait_for times out after 30 seconds: process.kill(), process.wait().
ExecTimeout(s) ==
    /\ LoopFree
    /\ hpc[s] = "exec_wait"
    /\ procs' = kill(procs, cur[s].req)
    /\ tempfiles' = unlink(tempfiles, cur[s].req)
    /\ sent' = code_execution_result(sent, s, FALSE, "timeout", cur[s].req)
    /\ finished' = finished \cup {ExecDone(s, cur[s].req, "timeout")}
    /\ hpc' = [hpc EXCEPT ![s] = "loop"]
    /\ cur' = [cur EXCEPT ![s] = NoRequest]
    /\ UNCHANGED <<viewer_vars, text_vars, markdown_file, files, edits, observer_vars, broadcast_vars, watcher_vars, clients, conn, inbox,
                   nmsgs, returncodes>>

\* ---------------------------------------------------------- notify_clients
\* The reload message of broadcast k.
Reload(k) == Reply("reload", "", "", <<"broadcast", k>>)

\* notify_clients is called on the event loop and runs to its first await: with
\* a non-empty viewer set it copies the set into a list.  (on_file_change
\* never gets as far as scheduling it, see running_loop; here it is called as
\* the coroutine it is.)
BroadcastBegin ==
    /\ LoopFree
    /\ Len(snapshots) < MaxBroadcasts
    /\ snapshots' = Append(snapshots, clients)
    /\ copies' = Append(copies, clients)
    /\ UNCHANGED <<viewer_vars, text_vars, markdown_file, files, edits, observer_vars, watcher_vars,
                   session_vars, sandbox_vars>>

\* One iteration of the loop over clients_copy: await client.send(message),
\* and discard the client from the live set when the send raises
\* ConnectionClosed.
BroadcastSend_KeepClosed(k) ==
    /\ LoopFree
    /\ k \in 1 .. Len(copies)
    /\ \E client \in copies[k] :
        /\ copies' = [copies EXCEPT ![k] = @ \ {client}]
        /\ sent' = send(sent, client, Reload(k))
        /\ UNCHANGED clients
    /\ UNCHANGED <<viewer_vars, text_vars, markdown_file, files, edits, observer_vars, watcher_vars, conn, hpc,
                   inbox, cur, nmsgs, finished, sandbox_vars, snapshots>>
BroadcastSend(k) ==
    /\ LoopFree
    /\ k \in 1 .. Len(copies)
    /\ \E client \in copies[k] :
        /\ copies' = [copies EXCEPT ![k] = @ \ {client}]
        /\ sent' = send(sent, client, Reload(k))
        /\ clients' = IF conn[client] = "open" THEN clients ELSE clients \ {client}
    /\ UNCHANGED <<viewer_vars, text_vars, markdown_file, files, edits, observer_vars, watcher_vars, conn, hpc,
                   inbox, cur, nmsgs, finished, sandbox_vars, snapshots>>

\* ------------------------------------------------------------ the transforms
\* Everything but the page of the viewer, and everything but the texts.
server_vars == <<markdown_file, files, edits, observer_vars, watcher_vars, session_vars,
                 sandbox_vars, broadcast_vars, text_vars>>
program_vars == <<markdown_file, files, edits, observer_vars, watcher_vars, session_vars,
                  sandbox_vars, broadcast_vars, viewer_vars>>
\* generate_html renders the source document and splits the result.
Render ==
    /\ text_pc = "source"
    /\ toc_html' = render(source_text).toc_html
    /\ body_html' = render(source_text).body_html
    /\ text_pc' = "rendered"
    /\ UNCHANGED <<program_vars, source_text, content, executed, markdown_text,
                   round_trip>>
\* handle_content_save calls html_to_markdown on the content a viewer sends,
\* unmodified since it was rendered or edited; the function executes its next
\* statement and returns content after the last one.
html_to_markdown ==
    /\ text_pc \in {"rendered", "edited", "converting"}
    /\ content' = statement(Statements[executed + 1],
                            IF executed = 0 THEN body_html ELSE content)
    /\ executed' = executed + 1
    /\ IF executed' = Len(Statements)
       THEN markdown_text' = content' /\ text_pc' = "reconciled"
       ELSE markdown_text' = markdown_text /\ text_pc' = "converting"
    /\ UNCHANGED <<program_vars, source_text, toc_html, body_html, round_trip>>
\* generate_html renders the markup that was saved.
Rerender ==
    /\ text_pc = "reconciled"
    /\ round_trip' = render(markdown_text).body_html
    /\ text_pc' = "rerendered"
    /\ UNCHANGED <<program_vars, source_text, toc_html, body_html, content, executed,
                   markdown_text>>

\* ---------------------------------------------------------- the viewer page
\* ws.onopen calls enableEditing: createTopBar inserts the top bar before the
\* first child of main.container, createEditingToolbar the toolbar after the
\* top bar, and the listeners that lead to saveContent are registered.
enableEditing ==
    /\ main_container[1] # "top-bar"
    /\ main_container' = <<"top-bar", "editing-toolbar">> \o main_container
    /\ UNCHANGED <<server_vars, pendingExecution, runButton, outputArea, requests, clicks,
                   saved>>

\* The toolbar command inserts the container of a code block (language
\* select, run button, editor, output area) into main.container, and a br
\* after it.
insertExecutableCodeBlock(b) ==
    /\ main_container[1] = "top-bar"
    /\ \A i \in 1 .. Len(main_container) : main_container[i] # b
    /\ main_container' = main_container \o <<b, "br">>
    /\ UNCHANGED <<server_vars, pendingExecution, runButton, outputArea, requests, clicks,
                   saved>>

\* A click on the run button of block b (a disabled button gives no click):
\* the button is disabled, the request sent, and window.pendingExecution set
\* to the output area and button of b.
executeCode(b) ==
    /\ clicks < MaxClicks
    /\ \E i \in 1 .. Len(main_container) : main_container[i] = b
    /\ runButton[b] = "run"
    /\ clicks' = clicks + 1
    /\ runButton' = [runButton EXCEPT ![b] = "running"]
    /\ outputArea' = [outputArea EXCEPT ![b] = "executing"]
    /\ requests' = Append(requests, b)
    /\ pendingExecution' = b
    /\ UNCHANGED <<server_vars, main_container, saved>>

\* ws.onmessage receives the code_execution_result of the oldest request not
\* yet answered and calls handleCodeExecutionResult.
handleCodeExecutionResult ==
    /\ requests # <<>>
    /\ requests' = Tail(requests)
    /\ IF pendingExecution # None
       THEN /\ outputArea' = [outputArea EXCEPT ![pendingExecution] =
                                  "result of " \o Head(requests)]
            /\ runButton' = [runButton EXCEPT ![pendingExecution] = "run"]
            /\ pendingExecution' = None
       ELSE UNCHANGED <<outputArea, runButton, pendingExecution>>
    /\ UNCHANGED <<server_vars, main_container, clicks, saved>>

\* saveContent, one second after the last input event: the innerHTML of
\* main.container, the serialization of its child nodes, is sent.
saveContent ==
    /\ main_container[1] = "top-bar"
    /\ Len(saved) < MaxSaves
    /\ saved' = Append(saved, main_container)
    /\ UNCHANGED <<server_vars, main_container, pendingExecution, runButton,
                   outputArea, requests, clicks>>

\* ----------------------------------------------------------- specification
\* The observer thread takes the next event from its queue and calls
\* on_modified, at any time after the previous call.
Dispatch == \E d \in 0 .. MaxStep : on_modified(d, "none") /\ UNCHANGED observer_vars
DispatchObserved ==
    \E d \in 0 .. MaxStep :
        on_modified(d, "none") /\ Observe(d) /\ UNCHANGED <<reload_due, last_save>>
DispatchDue ==
    \E d \in 0 .. MaxStep :
        on_modified(d, "none") /\ ObserveDue(d) /\ UNCHANGED <<dispatched, last_save>>
\* The same where the file system may fail a regeneration.
DispatchFaulty ==
    \E d \in 0 .. MaxStep, fault \in Faults :
        on_modified(d, fault) /\ UNCHANGED observer_vars

\* The broker's connection handling, common to every specification.
Connections ==
    \/ \E s \in Sessions : Connect(s)
    \/ \E s \in Sessions : ClientClose(s)
    \/ \E s \in Sessions : HandlerExit(s)

\* The change watcher with external editors, its calls recorded.
NextWatcher ==
    \/ \E p \in Paths : ExternalWrite(p)
    \/ DispatchObserved

\* The change watcher with external editors and connected viewers.
NextReload ==
    \/ \E p \in Paths : ExternalWrite(p)
    \/ DispatchDue
    \/ Connections

\* The save requests of the viewers, with the change watcher.
NextSave ==
    \/ Dispatch
    \/ Connections
    \/ \E s \in Sessions, body \in SaveBodies : ClientSend(s, body)
    \/ \E s \in Sessions : SaveBegin(s)
    \/ \E s \in Sessions : SaveWrite(s)

\* The execution sandbox and the execute requests of the viewers.
NextExec ==
    \/ Connections
    \/ \E s \in Sessions, body \in ExecBodies : ClientSend(s, body)
    \/ \E s \in Sessions : ExecBegin(s)
    \/ \E s \in Sessions : ExecExit(s)
    \/ \E s \in Sessions : ExecTimeout(s)

\* The message loop of the sessions with every kind of message: dropped
\* messages, saves and executions that succeed and that fail.
LoopBodies ==
    {b \in IgnoredBodies : b.type = "invalid_json"}
    \cup {b \in SaveBodies : b.content = "html_surrogate"}
    \cup {b \in ExecBodies : b.content = "code" /\ b.language \in {"python", "cobol"}}
NextSession ==
    \/ Connections
    \/ \E s \in Sessions, body \in LoopBodies : ClientSend(s, body)
    \/ \E s \in Sessions : IgnoreMessage(s)
    \/ \E s \in Sessions : SaveBegin(s)
    \/ \E s \in Sessions : SaveWrite(s)
    \/ \E s \in Sessions : ExecBegin(s)
    \/ \E s \in Sessions : ExecExit(s)
    \/ \E s \in Sessions : ExecTimeout(s)

\* Sessions that save different contents, one after the other or interleaved.
LastWriteBodies ==
    {[type |-> "save_content", content |-> c, language |-> None] :
        c \in {"html1", "html2", "html_surrogate"}}
NextLastWrite ==
    \/ Connections
    \/ \E s \in Sessions, body \in LastWriteBodies : ClientSend(s, body)
    \/ \E s \in Sessions : SaveBegin(s)
    \/ \E s \in Sessions : SaveWrite(s)

\* Sessions that send save_content messages without a content field.
MissingBodies == {[type |-> "save_content", content |-> Missing, language |-> None]}
NextMissing ==
    \/ Connections
    \/ \E s \in Sessions, body \in MissingBodies : ClientSend(s, body)
    \/ \E s \in Sessions : SaveBegin(s)
    \/ \E s \in Sessions : SaveWrite(s)

\* The connections of the sessions while requests of them are handled.
MembershipBodies ==
    {b \in SaveBodies : b.content = "html_surrogate"}
    \cup {b \in ExecBodies : b.content = "code" /\ b.language = "python"}
NextMembership ==
    \/ Connections
    \/ \E s \in Sessions, body \in MembershipBodies : ClientSend(s, body)
    \/ \E s \in Sessions : SaveBegin(s)
    \/ \E s \in Sessions : SaveWrite(s)
    \/ \E s \in Sessions : ExecBegin(s)
    \/ \E s \in Sessions : ExecExit(s)
    \/ \E s \in Sessions : ExecTimeout(s)

\* The change watcher with external editors on a file system that may fail.
NextRegen ==
    \/ \E p \in Paths : ExternalWrite(p)
    \/ DispatchFaulty

\* Broadcasts with viewers that connect and disconnect meanwhile.
NextBroadcast ==
    \/ Connections
    \/ BroadcastBegin
    \/ \E k \in 1 .. MaxBroadcasts : BroadcastSend(k)

\* A document is rendered, saved back unmodified and rendered again.
NextRoundTrip ==
    \/ Render
    \/ html_to_markdown
    \/ Rerender

\* The page of one viewer: its user edits, inserts code blocks and runs them.
NextViewer ==
    \/ enableEditing
    \/ \E b \in CodeBlocks : insertExecutableCodeBlock(b)
    \/ \E b \in CodeBlocks : executeCode(b)
    \/ handleCodeExecutionResult
    \/ saveContent

Next ==
    \/ NextWatcher \/ NextReload \/ NextSave \/ NextExec \/ NextSession
    \/ NextMembership \/ NextBroadcast \/ NextRegen \/ NextLastWrite
    \/ NextRoundTrip \/ NextMissing \/ NextViewer

Spec == Init /\ [][Next]_vars
SpecWatcher == Init /\ [][NextWatcher]_vars
SpecReload == Init /\ [][NextReload]_vars
SpecSave == Init /\ [][NextSave]_vars
SpecExec == Init /\ [][NextExec]_vars
SpecSession == Init /\ [][NextSession]_vars
SpecFilter == InitAnySource /\ [][NextWatcher]_vars
SpecLastWrite == Init /\ [][NextLastWrite]_vars
SpecRegen == Init /\ [][NextRegen]_vars
SpecBroadcast == Init /\ [][NextBroadcast]_vars
SpecMembership == Init /\ [][NextMembership]_vars
SpecViewer == Init /\ [][NextViewer]_vars
SpecMissing == Init /\ [][NextMissing]_vars
SpecRoundTrip == InitDocuments /\ [][NextRoundTrip]_vars
SpecTables == InitContent(Tables) /\ [][html_to_markdown]_vars
SpecViews == InitContent(Views) /\ [][html_to_markdown]_vars

\* The observer thread handles every queued event, and the event loop runs
\* every handler that can run.
FairSpecReload ==
    /\ SpecReload
    /\ WF_vars(DispatchDue)
    /\ \A s \in Sessions : WF_vars(HandlerExit(s))

\* The coroutine of one session: the step websocket_handler takes next.
HandlerStep(s) ==
    \/ HandlerExit(s)
    \/ IgnoreMessage(s)
    \/ SaveBegin(s)
    \/ SaveWrite(s)
    \/ ExecBegin(s)
    \/ ExecExit(s)
    \/ ExecTimeout(s)

\* The event loop runs every coroutine that can run, and wait_for returns no
\* later than its timeout.
FairSpecMembership ==
    /\ SpecMembership
    /\ \A s \in Sessions : WF_vars(HandlerStep(s))

\* ------------------------------------------------------------------ claims
\* Shared vocabulary of the claims.
RepliesTo(t, req) == {i \in 1 .. Len(sent[t]) : sent[t][i].req = req}
HasReload(s) == \E i \in 1 .. Len(sent[s]) : sent[s][i].type = "reload"
OwnReplies(t, type) ==
    \A i \in 1 .. Len(sent[t]) :
        /\ sent[t][i].type = type
        /\ sent[t][i].req[1] = t
        /\ \A j \in 1 .. Len(sent[t]) : sent[t][j].req = sent[t][i].req => i = j

\* C1: whenever the watcher thread has invoked the source-changed callback and
\* the regeneration succeeded, every viewer session open at that moment is
\* eventually sent a reload message (or has closed in the meantime).
C1_ReloadEventuallySent ==
    \A s \in Sessions : (s \in reload_due) ~> (HasReload(s) \/ conn[s] # "open")

\* C2: in every reachable state the artifact on disk is rendered from content
\* read from the one source document given at startup; a modification of
\* another file of the watched directory never changes the artifact.
C2_ArtifactOfSourceDocument == rendered_from = markdown_file

\* C3: after the last modification of the source file (also in a burst of
\* writes less than 500 ms apart), when every queued event has been handled,
\* the artifact is the rendering of the final source content.  Stated for a
\* markdown source and runs in which no other file is written.
C3_ArtifactCurrentWhenIdle ==
    ( /\ events = <<>>
      /\ endswith(markdown_file, MdSuffix)
      /\ \A p \in Paths \ {markdown_file} : files[p] = InitialText )
    => output = generate_html(files[markdown_file])

\* The time of the i-th call of on_modified.
RECURSIVE TimeOf(_)
TimeOf(i) == IF i = 0 THEN 0 ELSE TimeOf(i - 1) + dispatched[i].elapsed
CallsFor(p) == {i \in 1 .. Len(dispatched) : dispatched[i].src_path = p}

\* C4: any two callback invocations for the same path are at least 500 ms
\* apart; for a path that matches the filter, an event less than 500 ms after
\* an event that invoked the callback invokes nothing, an event 500 ms or more
\* after the previous event of its path invokes the callback, so that two
\* events 100 ms apart give one invocation and two events 600 ms apart two.
C4_AtMostOncePerWindow ==
    \A p \in Paths : \A i, j \in CallsFor(p) :
        i < j =>
            LET gap == TimeOf(j) - TimeOf(i)
                adjacent == \A k \in CallsFor(p) : ~(i < k /\ k < j)
            IN  /\ (dispatched[i].invoked /\ dispatched[j].invoked) => gap >= Debounce
                /\ (dispatched[i].invoked /\ gap < Debounce) => ~dispatched[j].invoked
                /\ (endswith(p, MdSuffix) /\ adjacent /\ gap >= Debounce)
                       => dispatched[j].invoked
                /\ (endswith(p, MdSuffix) /\ CallsFor(p) = {i, j})
                       => /\ dispatched[i].invoked
                          /\ dispatched[j].invoked <=> gap >= Debounce

\* Three events for the source: the second 100 ms after the first is dropped,
\* the third 600 ms after the second invokes the callback again.
C4_Witness ==
    /\ Len(dispatched) = 3
    /\ \A i \in 1 .. 3 : dispatched[i].src_path = DocMd
    /\ dispatched[2].elapsed = 1 /\ dispatched[3].elapsed = 6
    /\ dispatched[1].invoked /\ ~dispatched[2].invoked /\ dispatched[3].invoked

\* C5: a write of the source document performed by the save handler never
\* leads to an invocation of the source-changed handler.
C5_NoFeedbackFromSave == "save" \notin callback_origins

\* C6: every save_content request whose connection stays open is answered by
\* exactly one content_updated message, sent to the requesting session; no
\* session is ever sent anything but the one answer to each of its own requests.
C6_OneAckToRequester ==
    /\ \A t \in Sessions : OwnReplies(t, "content_updated")
    /\ \A f \in finished :
        (f.type = "save_content" /\ f.open)
            => Cardinality(RepliesTo(f.session, f.req)) = 1

\* A save of one session was answered while another session was open, the
\* watcher has regenerated the artifact because of the save, and the other
\* session got no message.
C6_Witness ==
    \E f \in finished : \E t \in Sessions \ {f.session} :
        /\ f.type = "save_content" /\ f.open /\ f.outcome = "success"
        /\ Len(sent[f.session]) = 1
        /\ "save" \in callback_origins /\ output = generate_html("md1")
        /\ conn[t] = "open" /\ sent[t] = <<>>

\* C7: when a save request fails at any step (transform, open, write, sending
\* the acknowledgement), and whenever status error is sent, the source
\* document has the content it had before the request.
C7_FailedSaveLeavesSource ==
    \A f \in finished :
        (f.type = "save_content" /\ f.outcome # "success") => ~f.modified

\* C8: every execute_code request whose connection stays open is answered by
\* exactly one code_execution_result, sent to the requesting session and to
\* no other, whatever the outcome.
C8_OneResultToRequester ==
    /\ \A t \in Sessions : OwnReplies(t, "code_execution_result")
    /\ \A f \in finished :
        (f.type = "execute_code" /\ f.open)
            => /\ Cardinality(RepliesTo(f.session, f.req)) = 1
               /\ \A i \in RepliesTo(f.session, f.req) :
                      sent[f.session][i].error = f.error

\* An execution timed out and its session got the one result, while another
\* session was open and got nothing.
C8_Witness ==
    \E f \in finished : \E t \in Sessions \ {f.session} :
        /\ f.type = "execute_code" /\ f.open /\ f.error = "timeout"
        /\ Len(sent[f.session]) = 1
        /\ conn[t] = "open" /\ sent[t] = <<>>

\* C9: after an execution that reached the timeout has returned, neither the
\* spawned child nor any process it started is still running.
C9_TimeoutKillsTree ==
    \A f \in finished :
        (f.type = "execute_code" /\ f.error = "timeout")
            => \A p \in procs : p.req # f.req

\* C10: on every exit path of execute the temporary file created for the
\* request no longer exists when the call ends.
C10_TempFileRemoved ==
    \A f \in finished : f.type = "execute_code" => f.req \notin tempfiles

\* C11: handling an execute_code request whose language tag is outside the
\* supported set spawns no process and returns the unsupported-language error.
C11_UnsupportedLanguage ==
    [][\A s \in Sessions :
        ( /\ hpc[s] = "loop"
          /\ inbox[s] # <<>>
          /\ inbox'[s] = Tail(inbox[s])
          /\ Head(inbox[s]).body.type = "execute_code"
          /\ Head(inbox[s]).body.language \notin SupportedLanguages )
        => /\ procs' = procs
           /\ ExecDone(s, Head(inbox[s]).id, "unsupported") \in finished']_vars

\* C12: when the child has exited before the timeout, the result's success
\* flag is (exit code = 0) and its error text is empty exactly for exit code 0.
C12_SuccessIsExitCodeZero ==
    \A r \in returncodes : \A f \in finished :
        f.req = r.req =>
            /\ f.error = "" <=> r.rc = 0
            /\ \A i \in RepliesTo(f.session, f.req) :
                   /\ sent[f.session][i].status = "success" <=> r.rc = 0
                   /\ sent[f.session][i].error = "" <=> r.rc = 0

\* One child exited with a non-zero code and one with code 0, and both
\* results were delivered.
C12_Witness ==
    \E r1, r2 \in returncodes :
        /\ r1.rc = 1 /\ r2.rc = 0
        /\ RepliesTo(r1.req[1], r1.req) # {}
        /\ RepliesTo(r2.req[1], r2.req) # {}

\* C13: a session enters the viewer set only when its connection handler
\* starts, leaves it only when its handler ends, is never in the set after its
\* handler has ended, and does not stay in the set once its connection has
\* closed.
C13_ViewerSetMembership ==
    /\ [](\A s \in Sessions : hpc[s] = "done" => s \notin clients)
    /\ [](\A s \in Sessions : conn[s] = "open" => s \in clients)
    /\ [][\A s \in Sessions :
            /\ (s \in clients' /\ s \notin clients)
                   => (conn[s] = "none" /\ conn'[s] = "open" /\ hpc'[s] = "loop")
            /\ (s \in clients /\ s \notin clients')
                   => (conn[s] = "closed" /\ hpc[s] = "loop" /\ hpc'[s] = "done")]_vars
    /\ \A s \in Sessions : (conn[s] = "closed") ~> (s \notin clients)

\* A session whose connection closed while a request of it was being handled
\* has left the viewer set, while another session is still in it.
C13_Witness ==
    \E f \in finished : \E t \in Sessions \ {f.session} :
        /\ ~f.open /\ f.type \in {"save_content", "execute_code"}
        /\ hpc[f.session] = "done" /\ f.session \notin clients
        /\ t \in clients

\* The step in which the handler of session s takes the next message of its
\* connection.
Receives(s) == hpc[s] = "loop" /\ inbox[s] # <<>> /\ inbox'[s] = Tail(inbox[s])
FinishedOf(s) == {f \in finished : f.session = s}
InboxIds(s) == {inbox[s][i].id[2] : i \in 1 .. Len(inbox[s])}

\* C14: within one session the responses are sent in the order of the
\* requests, and a request is taken up only after every earlier request of the
\* connection has been handled to its end.
C14_ResponsesInRequestOrder ==
    \A s \in Sessions :
        /\ \A i, j \in 1 .. Len(sent[s]) :
               i < j => sent[s][i].req[2] < sent[s][j].req[2]
        /\ \A f \in FinishedOf(s) : \A n \in InboxIds(s) : f.req[2] < n
        /\ cur[s] # NoRequest =>
               /\ \A f \in FinishedOf(s) : f.req[2] < cur[s].req[2]
               /\ \A n \in InboxIds(s) : cur[s].req[2] < n
        /\ \A i \in 1 .. Len(sent[s]) :
               \/ \E f \in FinishedOf(s) : f.req = sent[s][i].req
               \/ cur[s].req = sent[s][i].req

\* Two requests of one session were answered, the execution sent first before
\* the save sent second.
C14_Witness ==
    \E s \in Sessions :
        /\ Len(sent[s]) = 2
        /\ sent[s][1].type = "code_execution_result"
        /\ sent[s][2].type = "content_updated"

\* C15: a message that is not valid JSON is dropped: the step that drops it
\* sends nothing, leaves the viewer set, the connections and every file as
\* they are and keeps the message loop running; no response is ever sent for
\* it, and a message loop ends only after its connection has closed.
C15_InvalidJsonIgnored ==
    /\ [](\A f \in finished :
            f.type = "invalid_json" => RepliesTo(f.session, f.req) = {})
    /\ [](\A s \in Sessions : hpc[s] = "done" => conn[s] = "closed")
    /\ [][\A s \in Sessions :
            (Receives(s) /\ Head(inbox[s]).body.type = "invalid_json")
            => /\ clients' = clients /\ conn' = conn /\ sent' = sent
               /\ files' = files
               /\ hpc'[s] = "loop"]_vars

\* A session whose invalid message was dropped is still in the viewer set and
\* has had a later request answered.
C15_Witness ==
    \E f, g \in finished :
        /\ f.type = "invalid_json" /\ g.session = f.session
        /\ g.type = "execute_code" /\ f.req[2] < g.req[2]
        /\ RepliesTo(g.session, g.req) # {}
        /\ f.session \in clients /\ conn[f.session] = "open"

\* The reload messages of broadcast k that session s was sent.
ReloadsOf(s, k) == {i \in 1 .. Len(sent[s]) : sent[s][i] = Reload(k)}

\* C16: a broadcast sends only to the sessions of the snapshot it took, each at
\* most once; when it has gone through the snapshot, every session of it that
\* is still open was sent exactly one reload, and every session of it that was
\* found closed has been removed from the viewer set; sessions that connected
\* after the snapshot are left in the set and get nothing from this broadcast.
C16_BroadcastOverSnapshot ==
    \A k \in 1 .. Len(snapshots) :
        /\ copies[k] \subseteq snapshots[k]
        /\ \A s \in Sessions :
            /\ Cardinality(ReloadsOf(s, k)) <= 1
            /\ ReloadsOf(s, k) # {} => s \in snapshots[k] \ copies[k]
            /\ (s \in snapshots[k] \ copies[k] /\ conn[s] = "open")
                   => Cardinality(ReloadsOf(s, k)) = 1
            /\ (s \in snapshots[k] \ copies[k] /\ ReloadsOf(s, k) = {})
                   => s \notin clients
            /\ (conn[s] = "open" /\ s \notin snapshots[k]) => s \in clients

\* A broadcast over two sessions has ended: one was sent the reload, the other
\* closed while the broadcast was suspended and was removed, and its handler
\* has not ended yet.
C16_Witness ==
    \E k \in 1 .. Len(snapshots) : \E s, t \in Sessions :
        /\ snapshots[k] = {s, t} /\ s # t /\ copies[k] = {}
        /\ ReloadsOf(s, k) # {} /\ ReloadsOf(t, k) = {}
        /\ hpc[t] = "loop" /\ t \notin clients

\* C17: a call of on_modified that does not leave the rendering of the changed
\* file as the artifact (the event was dropped, or the regeneration failed)
\* leaves the previous artifact on disk unchanged and sends nothing.
C17_FailedRegenerationKeepsArtifact ==
    [][( /\ events # <<>>
         /\ events' = Tail(events)
         /\ output' # generate_html(files[Head(events).src_path]) )
       => /\ output' = output
          /\ sent' = sent
          /\ notify_tasks' = notify_tasks]_vars

\* A request whose handling has failed.
Failed(f) ==
    \/ f.type = "save_content" /\ f.outcome = "error"
    \/ f.type = "execute_code" /\ f.error # ""

\* C18: every request whose handling fails while its connection is open is
\* answered by one error status sent to the session it came from and to no
\* other; a step of one session's handler never changes whether another session
\* is in the viewer set, another session's connection or another session's
\* message loop, and the watcher can always handle the events it has queued.
C18_FailuresContained ==
    /\ [](\A f \in finished :
            (Failed(f) /\ f.open) =>
                /\ Cardinality(RepliesTo(f.session, f.req)) = 1
                /\ \A i \in RepliesTo(f.session, f.req) :
                       sent[f.session][i].status \in {"error", "failure"}
                /\ \A t \in Sessions \ {f.session} : RepliesTo(t, f.req) = {})
    /\ [](events # <<>> => ENABLED Dispatch)
    /\ [][\A s \in Sessions :
            (Receives(s) \/ (hpc[s] \in {"save_write", "exec_wait"} /\ hpc'[s] = "loop"))
            => \A t \in Sessions \ {s} :
                   /\ (t \in clients') <=> (t \in clients)
                   /\ conn'[t] = conn[t]
                   /\ hpc'[t] = hpc[t]
                   /\ inbox'[t] = inbox[t]]_vars

\* A save of one session failed and was answered with status error; another
\* session, connected all along, had a later request of its own answered.
C18_Witness ==
    \E f, g \in finished :
        /\ f.type = "save_content" /\ Failed(f) /\ f.open
        /\ RepliesTo(f.session, f.req) # {}
        /\ g.session # f.session /\ g.type = "execute_code" /\ g.open
        /\ f.req[2] < g.req[2]
        /\ RepliesTo(g.session, g.req) # {}
        /\ g.session \in clients

\* C19: whenever no save is in the middle of its write and some save has
\* written the source document, the document is the markdown of the save that
\* wrote last, whole.
C19_LastWriteWins ==
    (LoopFree /\ last_save # None) => files[markdown_file] = last_save

\* The extension of a file name: from its last dot on.
Extension(p) ==
    LET dots == {i \in 1 .. Len(p) : p[i] = "."}
        last == CHOOSE i \in dots : \A j \in dots : j <= i
    IN  SubSeq(p, last, Len(p))

\* C20: the callback is invoked only for files whose name ends in the extension
\* of the source file given at startup, and the first modification event of
\* the source file itself (which no debounce window can drop) invokes it,
\* whatever the extension of the source file is.
C20_FilterIsSourceExtension ==
    \A i \in 1 .. Len(dispatched) :
        /\ dispatched[i].invoked
               => endswith(dispatched[i].src_path, Extension(markdown_file))
        /\ ( /\ dispatched[i].src_path = markdown_file
             /\ \A j \in 1 .. i - 1 : dispatched[j].src_path # markdown_file )
               => dispatched[i].invoked

\* C21: when the converted HTML holds no closing tag of the navigation block,
\* the rendering has an empty navigation fragment and the whole converted HTML
\* as its content fragment.
C21_NoMarkerAllContent ==
    ( /\ text_pc = "rendered"
      /\ find(converted(source_text), "</div>") = -1 )
    => toc_html = "" /\ body_html = converted(source_text)

\* C22: saving back the unmodified content rendered from the document
\* "# Title\n\nHello **world**." gives that document again, up to trailing
\* whitespace, and the markup reconciled from a heading followed by a
\* paragraph has a blank line between the two.
C22_UnmodifiedSaveReproducesSource ==
    text_pc = "reconciled" =>
        /\ source_text = "# Title\n\nHello **world**."
               => rstrip(markdown_text) = source_text
        /\ \A h \in {"# Title", "## Notes"},
              t \in {"Hello **world**.", "See [t](u) and *i*."} :
               source_text = h \o "\n\n" \o t => StartsAt(markdown_text, 1, h \o "\n\n")

\* C23: for a document of the constructs the reconciler knows, the markup
\* reconciled from its rendered content renders to equivalent content: the same
\* constructs (the names of the opening tags, in their order) with the same
\* text (the content without markup and whitespace).
C23_RoundTripEquivalent ==
    LET TagStarts(html) ==
            {i \in 1 .. Len(html) - 1 :
                Char(html, i) = "<" /\ Char(html, i + 1) \in WordChars}
        TagName(html, i) ==
            SubSeq(html, i + 1,
                   Max({j \in i + 1 .. Len(html) :
                           \A k \in i + 1 .. j : Char(html, k) \in WordChars}))
        Constructs(html) ==
            The({[k \in 1 .. Cardinality(starts) |->
                     TagName(html, CHOOSE i \in starts :
                                       Cardinality({j \in starts : j <= i}) = k)]
                 : starts \in {TagStarts(html)}})
        TextOf(html) ==
            The({join("", [k \in 1 .. Len(t) |->
                              IF Char(t, k) \in Whitespace THEN "" ELSE Char(t, k)])
                 : t \in {unescape(remove_tags(html, FALSE))}})
    IN  text_pc = "rerendered" =>
            /\ Constructs(round_trip) = Constructs(body_html)
            /\ TextOf(round_trip) = TextOf(body_html)

\* C24: a table with at least one row becomes a pipe-delimited header row, then
\* one separator row with as many --- cells as the header row has cells, then
\* one pipe-delimited row for each further row of the table; the 2x2 table of
\* header A, B and data 1, 2 gives | A | B |, | --- | --- |, | 1 | 2 |.
C24_HeaderSeparatorRows ==
    LET IsPipeRow(line) ==
            /\ StartsAt(line, 1, "| ")
            /\ Len(line) >= 4
            /\ SubSeq(line, Len(line) - 1, Len(line)) = " |"
        CellsOf(line) == split(SubSeq(line, 3, Len(line) - 2), " | ")
        SeparatorOf(n) == "| " \o join(" | ", [k \in 1 .. n |-> "---"]) \o " |"
    IN  \A rows \in {findall(<<{"<tr"}>>, {"</tr>"}, body_html)} :
        \A lines \in {IF markdown_text = "" THEN <<>> ELSE split(markdown_text, "\n")} :
            (text_pc = "reconciled" /\ Len(rows) >= 1) =>
                /\ Len(lines) = Len(rows) + 1
                /\ \A k \in 1 .. Len(lines) : IsPipeRow(lines[k])
                /\ lines[2] = SeparatorOf(Len(CellsOf(lines[1])))
                /\ body_html = TableHtml(<<(<<"A", "B">>), <<"1", "2">>>>)
                       => lines = <<"| A | B |", "| --- | --- |", "| 1 | 2 |">>

\* C25: a table without rows is left as it is: its markup is part of the
\* reconciled markup, character for character.
C25_EmptyTableVerbatim ==
    ( /\ text_pc = "reconciled"
      /\ findall(<<{"<tr"}>>, {"</tr>"}, body_html) = <<>> )
    => FirstAt(markdown_text, 1, body_html) # 0

\* C26: a pre element with a code element in it becomes a fence of three
\* backticks that holds its text, whatever stands around it, and is not turned
\* into inline code.
C26_CodeBlockFenced ==
    ( /\ text_pc = "reconciled"
      /\ FirstAt(body_html, 1, "<pre><code>x\n</code></pre>") # 0 )
    => /\ FirstAt(markdown_text, 1, Fence \o "\nx\n") # 0
       /\ FirstAt(markdown_text, 1, Backtick \o "x\n" \o Backtick) = 0

\* C27: what the table step has written is not matched again by a later step:
\* the reconciled markup of a converted table is the output of the table step
\* (trimmed), with every cell unescaped once and no cell text read as a tag.
C27_NoRematch ==
    ( /\ text_pc = "reconciled"
      /\ FirstAt(convert_tables_to_markdown(strip(body_html)), 1, "<table") = 0 )
    => markdown_text = statement("whitespace", convert_tables_to_markdown(strip(body_html)))

\* C28: a tag that no rule converts is removed (its text stays), and the only
\* tags (from a '<' to the next '>') left in the reconciled markup are <u> and
\* </u>.
C28_OnlyUnderlineSurvives ==
    text_pc = "reconciled" =>
        \A i \in 1 .. Len(markdown_text) :
            (Char(markdown_text, i) = "<" /\ FirstAt(markdown_text, i + 1, ">") > i + 1)
            => SubSeq(markdown_text, i, FirstAt(markdown_text, i, ">")) \in {"<u>", "</u>"}

\* C29: the reconciled markup has no run of whitespace with three or more
\* newlines in it (three newlines in a row, also with lines of whitespace
\* between them), and neither starts nor ends with whitespace.
C29_WhitespaceNormalised ==
    text_pc = "reconciled" =>
        /\ \A i, j \in 1 .. Len(markdown_text) :
               ~ ( /\ \A k \in i .. j : Char(markdown_text, k) \in Whitespace
                   /\ Cardinality({k \in i .. j : Char(markdown_text, k) = "\n"}) >= 3 )
        /\ markdown_text # "" =>
               /\ Char(markdown_text, 1) \notin Whitespace
               /\ Char(markdown_text, Len(markdown_text)) \notin Whitespace

\* A view with newlines around a line of one space, and one that starts with a
\* newline and ends in the blank lines of a paragraph, have been reconciled.
C29_Witness ==
    /\ text_pc = "reconciled"
    /\ \/ body_html = "<div>a\n \n\nb</div>" /\ markdown_text = "a\n\nb"
       \/ body_html = "\n<p>y</p>" /\ markdown_text = "y"

\* C30: a dropped event changes nothing: a call for a markdown file invokes
\* the callback exactly when no call of the same path that passed the debounce
\* lies less than 500 ms back, whatever calls were dropped between the two, and
\* the recorded timestamp of the path stays that of the last call that passed.
C30_DroppedEventChangesNothing ==
    LET RECURSIVE Stamp(_, _)
        Stamp(p, i) ==
            IF i = 0 THEN 0
            ELSE IF dispatched[i].src_path = p /\ dispatched[i].invoked THEN i
            ELSE Stamp(p, i - 1)
    IN  \A p \in {q \in Paths : endswith(q, MdSuffix)} :
            /\ \A i \in CallsFor(p) :
                   dispatched[i].invoked
                       <=> \/ Stamp(p, i - 1) = 0
                           \/ TimeOf(i) - TimeOf(Stamp(p, i - 1)) >= Debounce
            /\ Stamp(p, Len(dispatched)) # 0 =>
                   /\ p \in DOMAIN last_modified
                   /\ last_modified[p] =
                          Min({Debounce,
                               TimeOf(Len(dispatched)) - TimeOf(Stamp(p, Len(dispatched)))})

\* A steady stream of events for the source file, 300 ms apart: the first is
\* accepted, the second dropped, the third accepted 600 ms after the first.
C30_Witness ==
    /\ Len(dispatched) = 3
    /\ \A i \in 1 .. 3 : dispatched[i].src_path = DocMd
    /\ dispatched[2].elapsed = 3 /\ dispatched[3].elapsed = 3
    /\ dispatched[1].invoked /\ ~dispatched[2].invoked /\ dispatched[3].invoked

\* C31: text is marked bold or italic only when it is the content of a
\* strong, b, em or i element: in the reconciled markup of a view whose only
\* such elements are <b>c</b> and <i>d</i>, every asterisk belongs to a **c**
\* or a *d*, also when a br or an img element stands in the view.
C31_BoldItalicExactElements ==
    LET Without(text, part) == join("", split(text, part))
    IN  text_pc = "reconciled" =>
            FirstAt(Without(Without(markdown_text, "**c**"), "*d*"), 1, "*") = 0

\* C32: the navigation and the content fragment partition the converted HTML:
\* the navigation followed by the content is the converted HTML, and when the
\* converted HTML holds a </div>, the navigation ends with the first one.
C32_FragmentsPartitionHtml ==
    text_pc = "rendered" =>
        /\ toc_html \o body_html = converted(source_text)
        /\ find(converted(source_text), "</div>") # -1 =>
               /\ Len(toc_html) = find(converted(source_text), "</div>") + Len("</div>")
               /\ FirstAt(toc_html, 1, "</div>") = Len(toc_html) - Len("</div>") + 1

\* A document with a heading has been rendered: the navigation is the block
\* of the table of contents and the content starts after it.
C32_Witness ==
    /\ text_pc = "rendered"
    /\ source_text = "# Title\n\nHello **world**."
    /\ StartsAt(toc_html, 1, "<div class=\"toc\">")
    /\ StartsAt(body_html, 1, "\n<h1 id=\"title\">Title</h1>")

\* C33: the watcher never renders a partially written source document: the
\* artifact is at all times the rendering of a complete content of the source,
\* the one it had at startup or the markdown of a save request, also when the
\* watcher reads the source between the open and the write of a save.
C33_NoPartialSourceRendered ==
    LET complete == {InitialText}
                    \cup {markdown_content(b.content) :
                            b \in {c \in SaveBodies : IsString(c.content)
                                       /\ Encodable(markdown_content(c.content))}}
    IN  output \in {generate_html(text) : text \in complete}

\* C34: an execution in flight for one session does not delay the others:
\* while a session awaits its child, the handler of every other session can
\* receive and handle the next message of that session, and only the next
\* message of the awaiting session itself is not received.
C34_ExecutionDelaysOwnSessionOnly ==
    \A s \in Sessions :
        (hpc[s] = "exec_wait") =>
            /\ \A t \in Sessions \ {s} :
                   (hpc[t] = "loop" /\ inbox[t] # <<>>) => ENABLED ExecBegin(t)
            /\ ~ ENABLED ExecBegin(s)

\* Two sessions have an execution in flight at the same time: the request of
\* one was received and its child spawned while the other awaited its child.
C34_Witness ==
    /\ hpc["s1"] = "exec_wait"
    /\ hpc["s2"] = "exec_wait"
    /\ cur["s1"].req # cur["s2"].req

\* C37: a save_content message without a content field is handled as a save
\* of empty content: its handler gets as far as writing the empty document
\* whenever the file can be opened, and a request answered with success has
\* left the source document empty.
C37_MissingContentSavesEmpty ==
    /\ \A s \in Sessions :
           ( /\ LoopFree
             /\ hpc[s] = "loop"
             /\ inbox[s] # <<>>
             /\ recv(inbox[s]).body.content = Missing )
           => ENABLED ( /\ SaveBegin(s)
                        /\ hpc'[s] = "save_write"
                        /\ cur'[s].markdown = EmptyText )
    /\ \A f \in finished :
           (f.type = "save_content" /\ f.outcome = "success") =>
               /\ files[markdown_file] = EmptyText
               /\ \E i \in RepliesTo(f.session, f.req) :
                      /\ sent[f.session][i].type = "content_updated"
                      /\ sent[f.session][i].status = "success"

\* A save_content message without a content field has been handled: the
\* source document, which held text, is empty and the session has its
\* acknowledgement.
C37_Witness ==
    \E f \in finished :
        /\ f.type = "save_content" /\ f.outcome = "success" /\ f.modified
        /\ files[markdown_file] = EmptyText
        /\ \E i \in RepliesTo(f.session, f.req) : sent[f.session][i].status = "success"

\* C35: each result is shown in the output area of the code block that
\* requested it, and no block stays in the Running state after its result has
\* arrived: an output area shows only a result of its own block, and a run
\* button is disabled only while a request of its block is not yet answered.
C35_ResultShownInRequestingBlock ==
    \A b \in CodeBlocks :
        /\ \A c \in CodeBlocks \ {b} : outputArea[b] # "result of " \o c
        /\ runButton[b] = "running" => \E i \in 1 .. Len(requests) : requests[i] = b

\* C36: the content sent in save_content is the rendered content fragment
\* only: none of the nodes the page has inserted into main.container (top
\* bar, editing toolbar, code blocks with their run and output controls).
C36_SavedContentIsFragmentOnly ==
    \A k \in 1 .. Len(saved) :
        \A i \in 1 .. Len(saved[k]) :
            saved[k][i] \notin {"top-bar", "editing-toolbar"} \cup CodeBlocks

====
